---- MODULE Spec2Model ----
(***************************************************************************)
(* Model of the repository analyzer API: the deterministic scorer, the     *)
(* GitHub URL parser and fetchers, and the analyze-repo request handler.   *)
(*                                                                         *)
(* Strings whose characters the code inspects (file paths, URLs) are       *)
(* sequences of one-character strings.  The README, of which the code only *)
(* reads .length and slices, is a run-length encoded string: a sequence of *)
(* runs [ch, n].                                                           *)
(***************************************************************************)
EXTENDS Integers, Sequences, FiniteSets, TLC

VARIABLES
    pc,          \* position of the POST handler
    body,        \* the request body as request.json() yields it
    repoInfo,    \* result of parseGitHubUrl
    readme,      \* handler local: README text
    files,       \* handler local: file paths of the tree
    packageJson, \* handler local: parsed package.json or null
    repoContext, \* handler local: paths whose content made it into the context
    fReadme,     \* promise of fetchReadme
    fTree,       \* promise of fetchFileTree
    fPkg,        \* promise of fetchPackageJson
    treeLog,     \* tree requests issued so far, with the status each got
    all,         \* the Promise.all of the three fetches
    ctx,         \* fetchRepoContext: its loop position, the batch in flight
                 \* and the content requests issued so far with their replies
    scorecard,   \* handler local: heuristicScorecard
    llm,         \* what the LLM service did for this request
    analysis,    \* handler local: result of analyzeRepository
    response,    \* the HTTP response
    evaluation,  \* result of the answer evaluator
    answerReq    \* the evaluate-answer request in progress: its position,
                 \* its body, what the LLM service did for it, its response

vars == <<pc, body, repoInfo, readme, files, packageJson, repoContext, fReadme,
          fTree, fPkg, treeLog, all, ctx, scorecard, llm, analysis, response,
          evaluation, answerReq>>

-----------------------------------------------------------------------------
(* Bounds of the model *)

\* scored readme lengths lie within ReadmeSlack of each length threshold
ReadmeSlack == 3
\* and on a grid of 250 characters up to 250 * MaxReadmeBlocks
MaxReadmeBlocks == 24
\* a scored file list is padded with ordinary source files, their number
\* within FillSlack of each of FillCentres
FillSlack == 3
\* up to MaxTests files named *.test.ts are in a scored file list
MaxTests == 5
\* when fetchRepoContext is run on its own, up to MaxOmitted of its content
\* requests get an answer that yields no content, and only when no more than
\* MaxFailingFiles files are prioritized
MaxOmitted == 2
\* a validated reply lists up to MaxQuestions questions
MaxQuestions == 7
MaxFailingFiles == 11

-----------------------------------------------------------------------------
(* String primitives on character sequences *)

StartsWith(s, p) == Len(p) <= Len(s) /\ SubSeq(s, 1, Len(p)) = p

EndsWith(s, p) == Len(p) <= Len(s) /\ SubSeq(s, Len(s) - Len(p) + 1, Len(s)) = p

Includes(s, sub) ==
    \E i \in 1..(Len(s) - Len(sub) + 1) : SubSeq(s, i, i + Len(sub) - 1) = sub

LowerLetters == <<"a","b","c","d","e","f","g","h","i","j","k","l","m",
                  "n","o","p","q","r","s","t","u","v","w","x","y","z">>
UpperLetters == <<"A","B","C","D","E","F","G","H","I","J","K","L","M",
                  "N","O","P","Q","R","S","T","U","V","W","X","Y","Z">>

UpperChar(c) ==
    IF \E k \in 1..26 : LowerLetters[k] = c
    THEN UpperLetters[CHOOSE k \in 1..26 : LowerLetters[k] = c]
    ELSE c

ToUpperCase(s) == [i \in 1..Len(s) |-> UpperChar(s[i])]

DigitChars == <<"0","1","2","3","4","5","6","7","8","9">>

RECURSIVE Digits(_)
Digits(n) ==
    IF n < 10 THEN <<DigitChars[n + 1]>>
    ELSE Digits(n \div 10) \o <<DigitChars[(n % 10) + 1]>>

\* .length of a run-length encoded string
RECURSIVE StrLength(_)
StrLength(s) == IF s = <<>> THEN 0 ELSE Head(s).n + StrLength(Tail(s))

\* s.slice(0, k) of a run-length encoded string
RECURSIVE StrSlice(_, _)
StrSlice(s, k) ==
    IF s = <<>> \/ k <= 0 THEN <<>>
    ELSE IF Head(s).n <= k
         THEN <<Head(s)>> \o StrSlice(Tail(s), k - Head(s).n)
         ELSE <<[ch |-> Head(s).ch, n |-> k]>>

Rep(c, k) == IF k = 0 THEN <<>> ELSE <<[ch |-> c, n |-> k]>>

-----------------------------------------------------------------------------
(* File names the scorer looks for *)

PACKAGE_JSON == <<"p","a","c","k","a","g","e",".","j","s","o","n">>
REQUIREMENTS_TXT == <<"r","e","q","u","i","r","e","m","e","n","t","s",".","t","x","t">>
CARGO_TOML == <<"C","a","r","g","o",".","t","o","m","l">>
GO_MOD == <<"g","o",".","m","o","d">>
POM_XML == <<"p","o","m",".","x","m","l">>
BUILD_GRADLE == <<"b","u","i","l","d",".","g","r","a","d","l","e">>

SLASH_TEST_SLASH == <<"/","t","e","s","t","/">>
SLASH_TESTS_SLASH == <<"/","_","_","t","e","s","t","s","_","_","/">>
DOT_TEST_DOT == <<".","t","e","s","t",".">>
DOT_SPEC_DOT == <<".","s","p","e","c",".">>
UNDERSCORE_TEST_DOT == <<"_","t","e","s","t",".">>
TEST_JAVA == <<"T","e","s","t",".","j","a","v","a">>
TEST_KT == <<"T","e","s","t",".","k","t">>

GITHUB_WORKFLOWS == <<".","g","i","t","h","u","b","/","w","o","r","k","f","l","o","w","s","/">>
GITLAB_CI_YML == <<".","g","i","t","l","a","b","-","c","i",".","y","m","l">>
TRAVIS_YML == <<".","t","r","a","v","i","s",".","y","m","l">>
CIRCLE_YML == <<"c","i","r","c","l","e",".","y","m","l">>
CIRCLECI_CONFIG == <<".","c","i","r","c","l","e","c","i","/","c","o","n","f","i","g",".","y","m","l">>

ENV_EXAMPLE == <<".","e","n","v",".","e","x","a","m","p","l","e">>
CONFIG_EXAMPLE_JSON == <<"c","o","n","f","i","g",".","e","x","a","m","p","l","e",".","j","s","o","n">>
CONFIG_EXAMPLE_YML == <<"c","o","n","f","i","g",".","e","x","a","m","p","l","e",".","y","m","l">>
DOT_EXAMPLE == <<".","e","x","a","m","p","l","e">>

LICENSE == <<"L","I","C","E","N","S","E">>
LICENSE_MD == <<"L","I","C","E","N","S","E",".","M","D">>
LICENSE_TXT == <<"L","I","C","E","N","S","E",".","T","X","T">>
CONTRIBUTING_UP_MD == <<"C","O","N","T","R","I","B","U","T","I","N","G",".","M","D">>
CHANGELOG_UP_MD == <<"C","H","A","N","G","E","L","O","G",".","M","D">>
CHANGELOG_UP_TXT == <<"C","H","A","N","G","E","L","O","G",".","T","X","T">>

-----------------------------------------------------------------------------
(* The deterministic scorer *)

Some(fs, P(_)) == \E i \in 1..Len(fs) : P(fs[i])

CountIf(fs, P(_)) == Cardinality({i \in 1..Len(fs) : P(fs[i])})

\* mutant: the 500 threshold taken inclusively
calculateDocumentationScore_Inclusive(r) ==
    (IF StrLength(r) > 0 THEN 10 ELSE 0)
    + (IF StrLength(r) >= 500 THEN 5 ELSE 0)
    + (IF StrLength(r) > 2000 THEN 5 ELSE 0)
    + (IF StrLength(r) > 5000 THEN 5 ELSE 0)

calculateDocumentationScore(r) ==
    (IF StrLength(r) > 0 THEN 10 ELSE 0)
    + (IF StrLength(r) > 500 THEN 5 ELSE 0)
    + (IF StrLength(r) > 2000 THEN 5 ELSE 0)
    + (IF StrLength(r) > 5000 THEN 5 ELSE 0)

isDependencyFile(file) ==
    \/ file = PACKAGE_JSON
    \/ file = REQUIREMENTS_TXT
    \/ file = CARGO_TOML
    \/ file = GO_MOD
    \/ file = POM_XML
    \/ file = BUILD_GRADLE

\* mutant: the last file-count threshold mistyped
calculateStructureScore_Sixty(fs) ==
    (IF Len(fs) > 5 THEN 5 ELSE 0)
    + (IF Len(fs) > 20 THEN 5 ELSE 0)
    + (IF Len(fs) > 60 THEN 5 ELSE 0)
    + (IF Some(fs, isDependencyFile) THEN 10 ELSE 0)

calculateStructureScore(fs) ==
    (IF Len(fs) > 5 THEN 5 ELSE 0)
    + (IF Len(fs) > 20 THEN 5 ELSE 0)
    + (IF Len(fs) > 50 THEN 5 ELSE 0)
    + (IF Some(fs, isDependencyFile) THEN 10 ELSE 0)

isTestFile(file) ==
    \/ Includes(file, SLASH_TEST_SLASH)
    \/ Includes(file, SLASH_TESTS_SLASH)
    \/ Includes(file, DOT_TEST_DOT)
    \/ Includes(file, DOT_SPEC_DOT)
    \/ Includes(file, UNDERSCORE_TEST_DOT)
    \/ EndsWith(file, TEST_JAVA)
    \/ EndsWith(file, TEST_KT)

calculateCompletenessScore(fs) ==
    LET testFiles == CountIf(fs, isTestFile)
    IN  (IF testFiles > 0 THEN 10 ELSE 0)
        + (IF testFiles > 3 THEN 10 ELSE 0)

isCICD(file) ==
    \/ StartsWith(file, GITHUB_WORKFLOWS)
    \/ file = GITLAB_CI_YML
    \/ file = TRAVIS_YML
    \/ file = CIRCLE_YML
    \/ file = CIRCLECI_CONFIG

isConfigExample(file) ==
    \/ file = ENV_EXAMPLE
    \/ file = CONFIG_EXAMPLE_JSON
    \/ file = CONFIG_EXAMPLE_YML
    \/ Includes(file, DOT_EXAMPLE)

isLicense(file) ==
    \/ ToUpperCase(file) = LICENSE
    \/ ToUpperCase(file) = LICENSE_MD
    \/ ToUpperCase(file) = LICENSE_TXT

isContributing(file) ==
    \/ ToUpperCase(file) = CONTRIBUTING_UP_MD
    \/ ToUpperCase(file) = CHANGELOG_UP_MD
    \/ ToUpperCase(file) = CHANGELOG_UP_TXT

calculateEngineeringMaturityScore(fs) ==
    (IF Some(fs, isCICD) THEN 15 ELSE 0)
    + (IF Some(fs, isConfigExample) THEN 5 ELSE 0)
    + (IF Some(fs, isLicense) THEN 5 ELSE 0)
    + (IF Some(fs, isContributing) THEN 5 ELSE 0)

Breakdown(r, fs) ==
    [documentation |-> calculateDocumentationScore(r),
     structure |-> calculateStructureScore(fs),
     completeness |-> calculateCompletenessScore(fs),
     engineering_maturity |-> calculateEngineeringMaturityScore(fs)]

\* mutant: the last category left out of the total
calculateScore_NoMaturity(r, fs) ==
    LET breakdown == Breakdown(r, fs)
    IN  [overall |-> breakdown.documentation + breakdown.structure
                     + breakdown.completeness,
         breakdown |-> breakdown]

calculateScore(r, fs) ==
    LET breakdown == Breakdown(r, fs)
    IN  [overall |-> breakdown.documentation + breakdown.structure
                     + breakdown.completeness + breakdown.engineering_maturity,
         breakdown |-> breakdown]

-----------------------------------------------------------------------------
(* The URL parser *)

DOT_GIT == <<".","g","i","t">>
GITHUB_COM_SLASH == <<"g","i","t","h","u","b",".","c","o","m","/">>
PARSE_FAILED_MESSAGE == <<"F","a","i","l","e","d"," ","t","o"," ","p","a",
    "r","s","e"," ","G","i","t","H","u","b"," ","U","R","L","."," ","E","x",
    "p","e","c","t","e","d"," ","f","o","r","m","a","t",":"," ","h","t","t",
    "p","s",":","/","/","g","i","t","h","u","b",".","c","o","m","/","o","w",
    "n","e","r","/","r","e","p","o">>

\* url.replace(/\.git$/, '')
StripDotGit(s) ==
    IF EndsWith(s, DOT_GIT) THEN SubSeq(s, 1, Len(s) - Len(DOT_GIT)) ELSE s

\* url.replace(/\/$/, '')
StripSlash(s) ==
    IF EndsWith(s, <<"/">>) THEN SubSeq(s, 1, Len(s) - 1) ELSE s

cleanUrl(url) == StripSlash(StripDotGit(url))

\* the end of the longest run of characters other than "/" starting at from
\* (from - 1 when the run is empty): what the greedy [^\/]+ consumes
RunEnd(s, from) ==
    CHOOSE e \in (from - 1)..Len(s) :
        /\ \A k \in from..e : s[k] # "/"
        /\ (e = Len(s) \/ s[e + 1] = "/")

\* github\.com\/([^\/]+)\/([^\/]+) matched with "github.com/" at index i
MatchAt(s, i) ==
    LET o == i + Len(GITHUB_COM_SLASH)
        oe == RunEnd(s, o)
        n == oe + 2
        ne == RunEnd(s, n)
    IN  IF /\ i + Len(GITHUB_COM_SLASH) - 1 <= Len(s)
           /\ SubSeq(s, i, i + Len(GITHUB_COM_SLASH) - 1) = GITHUB_COM_SLASH
           /\ oe >= o
           /\ oe < Len(s)
           /\ ne >= n
        THEN [matched |-> TRUE, owner |-> SubSeq(s, o, oe), name |-> SubSeq(s, n, ne)]
        ELSE [matched |-> FALSE]

\* String.prototype.match without the g flag: the leftmost match
Match(s) ==
    LET hits == {i \in 1..Len(s) : MatchAt(s, i).matched}
    IN  IF hits = {} THEN [matched |-> FALSE]
        ELSE MatchAt(s, CHOOSE i \in hits : \A j \in hits : i <= j)

\* [threw |-> TRUE, message] stands for the Error the function throws
parseGitHubUrl(url) ==
    LET match == Match(cleanUrl(url))
    IN  IF ~match.matched
        THEN [threw |-> TRUE, message |-> PARSE_FAILED_MESSAGE]
        ELSE [threw |-> FALSE, owner |-> match.owner, name |-> match.name]

-----------------------------------------------------------------------------
(* JavaScript values of the request body *)

JsUndefined == [t |-> "undefined"]
JsNull == [t |-> "null"]
JsNumber(n) == [t |-> "number", n |-> n]
JsString(s) == [t |-> "string", s |-> s]

\* !v
Falsy(v) ==
    \/ v.t \in {"undefined", "null"}
    \/ (v.t = "number" /\ v.n = 0)
    \/ (v.t = "string" /\ v.s = <<>>)

-----------------------------------------------------------------------------
(* The handler's initial locals and its responses *)

MISSING_REPO_URL == <<"M","i","s","s","i","n","g"," ","o","r"," ","i","n",
    "v","a","l","i","d"," ","r","e","p","o","_","u","r","l"," ","f","i","e",
    "l","d">>
REPO_NOT_FOUND == <<"R","e","p","o","s","i","t","o","r","y"," ","n","o","t",
    " ","f","o","u","n","d"," ","o","r"," ","i","s"," ","p","r","i","v","a",
    "t","e">>
RATE_LIMIT_EXCEEDED == <<"G","i","t","H","u","b"," ","A","P","I"," ","r",
    "a","t","e"," ","l","i","m","i","t"," ","e","x","c","e","e","d","e","d",
    "."," ","P","l","e","a","s","e"," ","a","d","d"," ","G","I","T","H","U",
    "B","_","T","O","K","E","N"," ","t","o"," ",".","e","n","v",".","l","o",
    "c","a","l">>
INTERNAL_SERVER_ERROR == <<"I","n","t","e","r","n","a","l"," ","s","e","r",
    "v","e","r"," ","e","r","r","o","r">>

Unset == [t |-> "unset"]
NoResponse == [status |-> 0]
\* no evaluate-answer request is being served
NoAnswerRequest == [pc |-> "idle"]
ErrorResponse(code, message) == [status |-> code, error |-> message]

-----------------------------------------------------------------------------
(* The GitHub fetchers *)

(* A reply of the GitHub API is [status, data]: status 0 stands for a fetch   *)
(* that fails without an HTTP answer, data is the JSON body of a 2xx answer:  *)
(*   [t |-> "file", content, json]  a file, content its decoded text and json *)
(*                                  what JSON.parse(content) yields           *)
(*   [t |-> "dir"]                  an array: the listing of a directory      *)
(*   [t |-> "tree", tree]           a recursive tree listing                  *)
(*   [t |-> "other"]                a JSON body without the expected field    *)

RATE_LIMIT_MESSAGE == <<"G","i","t","H","u","b"," ","A","P","I"," ","r","a",
    "t","e"," ","l","i","m","i","t"," ","e","x","c","e","e","d","e","d"," ",
    "o","r"," ","r","e","p","o","s","i","t","o","r","y"," ","i","s"," ","p",
    "r","i","v","a","t","e">>
API_ERROR_PREFIX == <<"G","i","t","H","u","b"," ","A","P","I"," ","e","r",
    "r","o","r",":"," ">>
NO_BRANCH_MESSAGE == <<"R","e","p","o","s","i","t","o","r","y"," ","n","o",
    "t"," ","f","o","u","n","d"," ","o","r"," ","n","o"," ","a","c","c","e",
    "s","s","i","b","l","e"," ","b","r","a","n","c","h","e","s">>
FETCH_FAILED_MESSAGE == <<"f","e","t","c","h"," ","f","a","i","l","e","d">>
NO_CONTENT_MESSAGE == <<"C","a","n","n","o","t"," ","r","e","a","d"," ","p",
    "r","o","p","e","r","t","i","e","s"," ","o","f"," ","u","n","d","e","f",
    "i","n","e","d"," ","(","r","e","a","d","i","n","g"," ","'","r","e","p",
    "l","a","c","e","'",")">>
NO_TREE_MESSAGE == <<"C","a","n","n","o","t"," ","r","e","a","d"," ","p",
    "r","o","p","e","r","t","i","e","s"," ","o","f"," ","u","n","d","e","f",
    "i","n","e","d"," ","(","r","e","a","d","i","n","g"," ","'","f","i","l",
    "t","e","r","'",")">>
NOT_FOUND == <<"n","o","t"," ","f","o","u","n","d">>
RATE_LIMIT == <<"r","a","t","e"," ","l","i","m","i","t">>

README_MAX_LENGTH == 10000

Ok(reply) == reply.status \in 200..299

Fulfilled(v) == [st |-> "fulfilled", value |-> v]
Rejected(m) == [st |-> "rejected", message |-> m]

\* the Error thrown on a !response.ok answer
StatusError(status) ==
    IF status = 403 THEN RATE_LIMIT_MESSAGE ELSE API_ERROR_PREFIX \o Digits(status)

\* the promise fetchReadme returns, settled on the reply to its request
fetchReadme(reply) ==
    IF reply.status = 0 THEN Rejected(FETCH_FAILED_MESSAGE)
    ELSE IF reply.status = 404 THEN Fulfilled(<<>>)
    ELSE IF ~Ok(reply) THEN Rejected(StatusError(reply.status))
    ELSE IF reply.data.t # "file" THEN Rejected(NO_CONTENT_MESSAGE)
    ELSE Fulfilled(StrSlice(reply.data.content, README_MAX_LENGTH))

\* the promise fetchFileContent returns; a fulfilled value is the data of the
\* file, or Empty for ''
Empty == [t |-> "empty"]

fetchFileContent(reply) ==
    IF reply.status = 0 THEN Rejected(FETCH_FAILED_MESSAGE)
    ELSE IF reply.status = 404 THEN Fulfilled(Empty)
    ELSE IF ~Ok(reply) THEN Rejected(StatusError(reply.status))
    ELSE IF reply.data.t = "dir" THEN Fulfilled(Empty)
    ELSE IF reply.data.t # "file" THEN Rejected(NO_CONTENT_MESSAGE)
    ELSE IF reply.data.content = <<>> THEN Fulfilled(Empty)
    ELSE Fulfilled(reply.data)

\* the promise fetchPackageJson returns: the await of fetchFileContent is
\* outside its try, JSON.parse inside
fetchPackageJson(reply) ==
    LET content == fetchFileContent(reply)
    IN  IF content.st = "rejected" THEN content
        ELSE IF content.value = Empty THEN Fulfilled(JsNull)
        ELSE IF content.value.json.t = "syntax_error" THEN Fulfilled(JsNull)
        ELSE Fulfilled(content.value.json)

Branches == <<"main", "master">>

\* data.tree.filter(item => item.type === 'blob').map(item => item.path)
BlobPaths(tree) ==
    LET blobs == SelectSeq(tree, LAMBDA item : item.type = "blob")
    IN  [i \in 1..Len(blobs) |-> blobs[i].path]

\* what the body of the try does with the reply to one tree request
TreeTry(reply) ==
    IF reply.status = 0 THEN [kind |-> "throw", message |-> FETCH_FAILED_MESSAGE]
    ELSE IF reply.status = 404 THEN [kind |-> "continue"]
    ELSE IF ~Ok(reply) THEN [kind |-> "throw", message |-> StatusError(reply.status)]
    ELSE IF reply.data.t # "tree" THEN [kind |-> "throw", message |-> NO_TREE_MESSAGE]
    ELSE [kind |-> "return", files |-> BlobPaths(reply.data.tree)]

\* mutant: a catch that drops every error
TreeAttempt_DropAll(reply) ==
    LET r == TreeTry(reply)
    IN  IF r.kind = "throw" THEN [kind |-> "continue"] ELSE r

\* one iteration of the loop over the branches: the try and its catch, which
\* rethrows an error whose message includes 'rate limit' and drops any other
TreeAttempt(reply) ==
    LET r == TreeTry(reply)
    IN  IF r.kind = "throw" /\ ~Includes(r.message, RATE_LIMIT)
        THEN [kind |-> "continue"]
        ELSE r

-----------------------------------------------------------------------------
(* fetchRepoContext *)

TSCONFIG_JSON == <<"t","s","c","o","n","f","i","g",".","j","s","o","n">>
NEXT_CONFIG_DOT == <<"n","e","x","t",".","c","o","n","f","i","g",".">>
SRC_SLASH == <<"s","r","c","/">>
APP_SLASH == <<"a","p","p","/">>
LIB_SLASH == <<"l","i","b","/">>
COMPONENTS_SLASH == <<"c","o","m","p","o","n","e","n","t","s","/">>
DOT_TS == <<".","t","s">>
DOT_TSX == <<".","t","s","x">>
DOT_JS == <<".","j","s">>
DOT_JSX == <<".","j","s","x">>

MAX_PRIORITY_FILES == 30
BATCH_SIZE == 5
FILE_MAX_LENGTH == 5000

\* /dir\/.*\.(ts|tsx|js|jsx)$/
DirThenExt(file, dir) ==
    \E i \in 1..Len(file) :
        /\ i + Len(dir) - 1 <= Len(file)
        /\ SubSeq(file, i, i + Len(dir) - 1) = dir
        /\ \E ext \in {DOT_TS, DOT_TSX, DOT_JS, DOT_JSX} :
               /\ EndsWith(file, ext)
               /\ Len(file) - Len(ext) + 1 >= i + Len(dir)

isPriority(file) ==
    \/ EndsWith(file, PACKAGE_JSON)
    \/ EndsWith(file, TSCONFIG_JSON)
    \/ Includes(file, NEXT_CONFIG_DOT)
    \/ DirThenExt(file, SRC_SLASH)
    \/ DirThenExt(file, APP_SLASH)
    \/ DirThenExt(file, LIB_SLASH)
    \/ DirThenExt(file, COMPONENTS_SLASH)

Min(a, b) == IF a <= b THEN a ELSE b

\* mutant: the prioritized files are not limited
priorityFiles_NoLimit(fs) == SelectSeq(fs, isPriority)

\* files.filter(...).slice(0, 30)
priorityFiles(fs) ==
    LET hits == SelectSeq(fs, isPriority)
    IN  SubSeq(hits, 1, Min(Len(hits), MAX_PRIORITY_FILES))

\* the callback of batch.map: the part of the context for one file, or null
ContextPart(file, reply) ==
    LET content == fetchFileContent(reply)
    IN  IF content.st = "rejected" THEN JsNull
        ELSE IF content.value = Empty THEN JsNull
        ELSE [t |-> "part", file |-> file,
              content |-> StrSlice(content.value.content, FILE_MAX_LENGTH)]

\* the indices of priorityFiles.slice(i, i + BATCH_SIZE), i counted from 0
BatchIndices(i, n) == (i + 1)..Min(i + BATCH_SIZE, n)

\* a content request that has not been answered yet
InFlight == [status |-> -1]

\* the requests issued so far, and those of the batch at i issued on top
IssueBatch(log, i, n) ==
    [k \in 1..Min(i + BATCH_SIZE, n) |-> IF k \in DOMAIN log THEN log[k] ELSE InFlight]

\* mutant: the parts of a batch behind a failed file are dropped
RECURSIVE BatchParts_StopAtNull(_, _, _)
BatchParts_StopAtNull(results, k, last) ==
    IF k > last THEN <<>>
    ELSE IF results[k] = JsNull THEN <<>>
    ELSE <<results[k]>> \o BatchParts_StopAtNull(results, k + 1, last)

\* results.filter(Boolean) of a batch, in the order of the batch
RECURSIVE BatchParts(_, _, _)
BatchParts(results, k, last) ==
    IF k > last THEN <<>>
    ELSE (IF results[k] = JsNull THEN <<>> ELSE <<results[k]>>)
         \o BatchParts(results, k + 1, last)

-----------------------------------------------------------------------------
(* The LLM analysis client (the variant the handler uses) *)

(* JSON values of an LLM reply: JsNull, JsNumber, JsString (of an atomic       *)
(* string: their characters are never read), JsArray and JsObject.  The text   *)
(* of a reply is a sequence of tokens: a "```json" fence, a "```" fence, a     *)
(* line break, a JSON text (with the value it parses to) or other text.        *)

JsArray(a) == [t |-> "array", a |-> a]
JsObject(f) == [t |-> "object", f |-> f]

\* {}: an object none of whose fields is defined
EmptyObject ==
    JsObject([summary |-> JsUndefined, scorecard |-> JsUndefined,
              technical_questions |-> JsUndefined, technical_notes |-> JsUndefined])

FenceJson == [k |-> "fence_json"]
Fence == [k |-> "fence"]
Newline == [k |-> "nl"]
Junk == [k |-> "junk"]
JsonText(v) == [k |-> "json", v |-> v]

\* content.replace(/```json\n?/g, '')
RECURSIVE StripFenceJson(_)
StripFenceJson(c) ==
    IF c = <<>> THEN <<>>
    ELSE IF Head(c) = FenceJson
         THEN IF Len(c) >= 2 /\ c[2] = Newline
              THEN StripFenceJson(Tail(Tail(c)))
              ELSE StripFenceJson(Tail(c))
         ELSE <<Head(c)>> \o StripFenceJson(Tail(c))

\* .replace(/```\n?$/g, '')
StripFenceEnd(c) ==
    IF Len(c) >= 2 /\ c[Len(c) - 1] = Fence /\ c[Len(c)] = Newline
    THEN SubSeq(c, 1, Len(c) - 2)
    ELSE IF Len(c) >= 1 /\ c[Len(c)] = Fence
    THEN SubSeq(c, 1, Len(c) - 1)
    ELSE c

\* .trim()
RECURSIVE Trim(_)
Trim(c) ==
    IF c # <<>> /\ Head(c) = Newline THEN Trim(Tail(c))
    ELSE IF c # <<>> /\ c[Len(c)] = Newline THEN Trim(SubSeq(c, 1, Len(c) - 1))
    ELSE c

\* JSON.parse succeeds on a text that is one JSON text and nothing else;
\* on any other text the catch returns {}
parseJSONResponse(content) ==
    LET cleaned == Trim(StripFenceEnd(StripFenceJson(content)))
    IN  IF Len(cleaned) = 1 /\ cleaned[1].k = "json"
        THEN cleaned[1].v
        ELSE EmptyObject

\* v.k of a value that is neither null nor undefined
Get(v, k) ==
    IF v.t = "object" /\ k \in DOMAIN v.f THEN v.f[k] ELSE JsUndefined

\* v?.k
OptGet(v, k) == IF v.t \in {"null", "undefined"} THEN JsUndefined ELSE Get(v, k)

\* a.slice(0, n).filter(x => typeof x === 'string'), as atomic strings
Strings(a, n) ==
    LET kept == SelectSeq(SubSeq(a, 1, Min(Len(a), n)), LAMBDA x : x.t = "string")
    IN  [i \in 1..Len(kept) |-> kept[i].s]

StringOr(v, default) == IF v.t = "string" THEN v.s ELSE default
NumberOr(v, default) == IF v.t = "number" THEN v.n ELSE default

FALLBACK_QUESTIONS ==
    <<"Explain the architectural patterns observed in the codebase.",
      "How does this project handle error scenarios and edge cases?",
      "What mechanisms are in place for performance optimization?",
      "Describe the data flow within the core components.",
      "How are external dependencies managed and isolated?",
      "What security measures are implemented in the current codebase?">>

\* mutant: too few questions are not filled up
validateAnalysis_NoPadding(parsed) ==
    LET tq == Get(parsed, "technical_questions")
        tn == Get(parsed, "technical_notes")
        sc == Get(parsed, "scorecard")
    IN  [summary |-> StringOr(Get(parsed, "summary"), "Analysis unavailable."),
         scorecard |->
             [score |-> NumberOr(OptGet(sc, "score"), 50),
              reasoning |-> StringOr(OptGet(sc, "reasoning"), "No reasoning provided."),
              ai_probability_score |-> NumberOr(OptGet(sc, "ai_probability_score"), 0),
              ai_probability_reasoning |->
                  StringOr(OptGet(sc, "ai_probability_reasoning"), "No forensics available.")],
         technical_questions |-> IF tq.t = "array" THEN Strings(tq.a, 6) ELSE <<>>,
         technical_notes |-> IF tn.t = "array" THEN Strings(tn.a, 5) ELSE <<>>]

\* parsed is neither null nor undefined (on those the first property access throws)
validateAnalysis(parsed) ==
    LET tq == Get(parsed, "technical_questions")
        technical_questions == IF tq.t = "array" THEN Strings(tq.a, 6) ELSE <<>>
        tn == Get(parsed, "technical_notes")
        sc == Get(parsed, "scorecard")
    IN  [summary |-> StringOr(Get(parsed, "summary"), "Analysis unavailable."),
         scorecard |->
             [score |-> NumberOr(OptGet(sc, "score"), 50),
              reasoning |-> StringOr(OptGet(sc, "reasoning"), "No reasoning provided."),
              ai_probability_score |-> NumberOr(OptGet(sc, "ai_probability_score"), 0),
              ai_probability_reasoning |->
                  StringOr(OptGet(sc, "ai_probability_reasoning"), "No forensics available.")],
         technical_questions |->
             IF Len(technical_questions) < 5
             THEN technical_questions
                  \o SubSeq(FALLBACK_QUESTIONS, Len(technical_questions) + 1, 5)
             ELSE technical_questions,
         technical_notes |-> IF tn.t = "array" THEN Strings(tn.a, 5) ELSE <<>>]

createFallbackAnalysis ==
    [summary |-> "Analysis failed due to missing API key or error.",
     scorecard |-> [score |-> 0, reasoning |-> "Analysis failed.",
                    ai_probability_score |-> 0,
                    ai_probability_reasoning |-> "Analysis failed."],
     technical_questions |-> SubSeq(FALLBACK_QUESTIONS, 1, 5),
     technical_notes |-> <<"Analysis failed. Using fallback questions.">>]

(* The first version of the client (summary, questions and notes only) *)

DEFAULT_QUESTIONS ==
    <<"What is this project?", "How does it work?", "What are the key features?">>
MORE_DETAILS == "Additional technical details needed"
DEFAULT_SUMMARY == <<"Analysis unavailable">>
DEFAULT_NOTES == <<"No additional notes">>

\* while (technical_questions.length < 3) technical_questions.push(...)
RECURSIVE PadTo(_, _, _)
PadTo(a, n, filler) == IF Len(a) >= n THEN a ELSE PadTo(Append(a, filler), n, filler)

\* validateAnalysis of the first version; parsed is neither null nor undefined
validateAnalysisBasic(parsed) ==
    LET sm == Get(parsed, "summary")
        summary == IF sm.t = "array" THEN Strings(sm.a, 5) ELSE DEFAULT_SUMMARY
        tq == Get(parsed, "technical_questions")
        technical_questions ==
            PadTo(IF tq.t = "array" THEN Strings(tq.a, 3) ELSE DEFAULT_QUESTIONS,
                  3, MORE_DETAILS)
        nt == Get(parsed, "notes")
        notes == IF nt.t = "array" THEN Strings(nt.a, 4) ELSE DEFAULT_NOTES
    IN  [summary |-> IF Len(summary) > 0 THEN summary ELSE DEFAULT_SUMMARY,
         technical_questions |->
             SubSeq(technical_questions, 1, Min(Len(technical_questions), 3)),
         notes |-> IF Len(notes) > 0 THEN notes ELSE DEFAULT_NOTES]

\* an error that leaves analyzeRepository
Raised == [t |-> "raised"]

\* mutant: the TypeError of validateAnalysis on null is not caught
analyzeRepository_NoCatch(service) ==
    IF ~service.key THEN createFallbackAnalysis
    ELSE IF service.status = 0 \/ ~Ok(service) THEN createFallbackAnalysis
    ELSE IF service.text = <<>> THEN createFallbackAnalysis
    ELSE LET parsed == parseJSONResponse(service.text)
         IN  IF parsed.t \in {"null", "undefined"}
             THEN Raised
             ELSE validateAnalysis(parsed)

(* What the LLM service does for a request is [key, status, text]: key tells   *)
(* whether GEMINI_API_KEY is set, status is the HTTP status of the answer (0:  *)
(* the fetch fails), text the text of the first candidate (<<>>: none).        *)
analyzeRepository(service) ==
    IF ~service.key THEN createFallbackAnalysis
    ELSE IF service.status = 0 \/ ~Ok(service) THEN createFallbackAnalysis
    ELSE IF service.text = <<>> THEN createFallbackAnalysis
    ELSE LET parsed == parseJSONResponse(service.text)
         IN  IF parsed.t \in {"null", "undefined"}
             THEN createFallbackAnalysis   \* the TypeError is caught
             ELSE validateAnalysis(parsed)

-----------------------------------------------------------------------------
(* The answer evaluator *)

(* Numbers computed by the evaluator are JsNumber(n) or NaN.  JSON booleans    *)
(* are JsBool.                                                                 *)
JsBool(b) == [t |-> "boolean", b |-> b]
NaN == [t |-> "nan"]

\* Number(s) of the strings the replies hold
StringToNumber(s) ==
    CASE s = "" -> JsNumber(0)
      [] s = "20" -> JsNumber(20)
      [] s = "90" -> JsNumber(90)
      [] OTHER -> NaN

\* the number Math.min and Math.max convert their argument to
RECURSIVE ToNumber(_)
ToNumber(v) ==
    CASE v.t = "number" -> v
      [] v.t = "nan" -> NaN
      [] v.t = "undefined" -> NaN
      [] v.t = "null" -> JsNumber(0)
      [] v.t = "boolean" -> JsNumber(IF v.b THEN 1 ELSE 0)
      [] v.t = "string" -> StringToNumber(v.s)
      [] v.t = "array" ->
            IF Len(v.a) = 0 THEN JsNumber(0)
            ELSE IF Len(v.a) > 1 THEN NaN
            ELSE IF v.a[1].t \in {"null", "undefined"} THEN JsNumber(0)
            ELSE IF v.a[1].t \in {"number", "string", "array"} THEN ToNumber(v.a[1])
            ELSE NaN
      [] OTHER -> NaN

Max(a, b) == IF a >= b THEN a ELSE b

\* Math.max(min, Math.min(max, value))
clamp(value, min, max) ==
    LET x == ToNumber(value)
    IN  IF x = NaN THEN NaN ELSE JsNumber(Max(min, Min(max, x.n)))

\* a ?? b
Coalesce(a, b) == IF a.t \in {"null", "undefined"} THEN b ELSE a

\* a + b of two numbers
Plus(a, b) == IF a = NaN \/ b = NaN THEN NaN ELSE JsNumber(a.n + b.n)

CONFIDENCE_LEVELS == {"low", "medium", "high"}

\* parsed is neither null nor undefined (on those the first property access throws)
validateEvaluation(parsed) ==
    LET bd == Get(parsed, "breakdown")
        Sub(k) == clamp(Coalesce(OptGet(bd, k), JsNumber(0)), 0, 25)
        breakdown ==
            [consistency_with_readme |-> Sub("consistency_with_readme"),
             specificity |-> Sub("specificity"),
             depth_of_reasoning |-> Sub("depth_of_reasoning"),
             honesty_and_limitations |-> Sub("honesty_and_limitations")]
        sum == Plus(Plus(Plus(breakdown.consistency_with_readme, breakdown.specificity),
                         breakdown.depth_of_reasoning),
                    breakdown.honesty_and_limitations)
        fl == Get(parsed, "flags")
        nt == Get(parsed, "notes")
        cl == Get(parsed, "confidence_level")
    IN  [understanding_score |->
             clamp(Coalesce(Get(parsed, "understanding_score"), sum), 0, 100),
         breakdown |-> breakdown,
         flags |-> IF fl.t = "array" THEN Strings(fl.a, Len(fl.a)) ELSE <<>>,
         notes |-> IF nt.t = "array" THEN Strings(nt.a, Len(nt.a)) ELSE DEFAULT_NOTES,
         confidence_level |->
             IF cl.t = "string" /\ cl.s \in CONFIDENCE_LEVELS THEN cl.s ELSE "medium"]

createFallbackEvaluation(reason) ==
    [understanding_score |-> JsNumber(0),
     breakdown |-> [consistency_with_readme |-> JsNumber(0),
                    specificity |-> JsNumber(0),
                    depth_of_reasoning |-> JsNumber(0),
                    honesty_and_limitations |-> JsNumber(0)],
     flags |-> <<"evaluation_failed">>,
     notes |-> <<reason>>,
     confidence_level |-> "low"]

\* content.trim(), the fences taken off when the text starts with one, and
\* JSON.parse, which accepts one JSON text with white space around it
parseEvaluationResponse(content) ==
    LET trimmed == Trim(content)
        cleaned == IF trimmed # <<>> /\ Head(trimmed) \in {FenceJson, Fence}
                   THEN StripFenceEnd(StripFenceJson(trimmed))
                   ELSE trimmed
        text == Trim(cleaned)
    IN  IF Len(text) = 1 /\ text[1].k = "json"
        THEN [threw |-> FALSE, value |-> text[1].v]
        ELSE [threw |-> TRUE]

NO_API_KEY == "Gemini API key not configured"
SYSTEM_ERROR == "Evaluation system error"

\* mutant: a reply that is not JSON is not caught
evaluateAnswer_NoCatch(service) ==
    IF ~service.key THEN createFallbackEvaluation(NO_API_KEY)
    ELSE IF service.status = 0 \/ ~Ok(service) THEN createFallbackEvaluation(SYSTEM_ERROR)
    ELSE IF service.text = <<>> THEN createFallbackEvaluation(SYSTEM_ERROR)
    ELSE LET parsed == parseEvaluationResponse(service.text)
         IN  IF parsed.threw THEN Raised
             ELSE IF parsed.value.t \in {"null", "undefined"}
             THEN createFallbackEvaluation(SYSTEM_ERROR)
             ELSE validateEvaluation(parsed.value)

\* service is what the LLM service does for the request, as for analyzeRepository
evaluateAnswer(service) ==
    IF ~service.key THEN createFallbackEvaluation(NO_API_KEY)
    ELSE IF service.status = 0 \/ ~Ok(service) THEN createFallbackEvaluation(SYSTEM_ERROR)
    ELSE IF service.text = <<>> THEN createFallbackEvaluation(SYSTEM_ERROR)
    ELSE LET parsed == parseEvaluationResponse(service.text)
         IN  IF parsed.threw THEN createFallbackEvaluation(SYSTEM_ERROR)
             ELSE IF parsed.value.t \in {"null", "undefined"}
             THEN createFallbackEvaluation(SYSTEM_ERROR)   \* the TypeError is caught
             ELSE validateEvaluation(parsed.value)

-----------------------------------------------------------------------------
(* POST /api/v1/analyze-repo: validation, URL parsing, scoring *)

\* request.json(), the destructuring of repo_url and the input check
Validate ==
    /\ pc = "validate"
    /\ IF body.t \in {"invalid_json", "null"}
       THEN \* request.json() or the destructuring throws: the outer catch
            /\ response' = ErrorResponse(500, INTERNAL_SERVER_ERROR)
            /\ pc' = "done"
       ELSE IF Falsy(body.repo_url) \/ body.repo_url.t # "string"
       THEN /\ response' = ErrorResponse(400, MISSING_REPO_URL)
            /\ pc' = "done"
       ELSE /\ pc' = "parse"
            /\ UNCHANGED response
    /\ UNCHANGED <<body, repoInfo, readme, files, packageJson, repoContext,
                   fReadme, fTree, fPkg, treeLog, all, ctx, scorecard, llm,
                   analysis,
                   evaluation, answerReq>>

ParseUrl ==
    /\ pc = "parse"
    /\ LET parsed == parseGitHubUrl(body.repo_url.s)
       IN  IF parsed.threw
           THEN /\ response' = ErrorResponse(400, parsed.message)
                /\ pc' = "done"
                /\ UNCHANGED repoInfo
           ELSE /\ repoInfo' = [owner |-> parsed.owner, name |-> parsed.name]
                /\ pc' = "fetch"
                /\ UNCHANGED response
    /\ UNCHANGED <<body, readme, files, packageJson, repoContext, fReadme,
                   fTree, fPkg, treeLog, all, ctx, scorecard, llm, analysis,
                   evaluation, answerReq>>

\* const heuristicScorecard = calculateScore(readme, files)
CalcScore ==
    /\ pc = "score"
    /\ scorecard' = calculateScore(readme, files)
    /\ pc' = "analyze"
    /\ UNCHANGED <<body, repoInfo, readme, files, packageJson, repoContext,
                   fReadme, fTree, fPkg, treeLog, all, ctx, llm, analysis,
                   response,
                   evaluation, answerReq>>

-----------------------------------------------------------------------------
(* POST /api/v1/analyze-repo: the fetches, the analysis and the response *)

\* Promise.all after one of its promises settled as p: it rejects with the first
\* rejection and fulfils once all three are fulfilled
AllAfter(p, q1, q2) ==
    IF all.st # "pending" THEN all
    ELSE IF p.st = "rejected" THEN Rejected(p.message)
    ELSE IF q1.st = "fulfilled" /\ q2.st = "fulfilled" THEN [st |-> "fulfilled"]
    ELSE all

\* the three fetch functions are called: each issues its first request
StartFetch ==
    /\ pc = "fetch"
    /\ fReadme' = [st |-> "inflight"]
    /\ fTree' = [st |-> "inflight", branch |-> 1]
    /\ treeLog' = <<[branch |-> Branches[1], status |-> -1]>>
    /\ fPkg' = [st |-> "inflight"]
    /\ all' = [st |-> "pending"]
    /\ pc' = "await"
    /\ UNCHANGED <<body, repoInfo, readme, files, packageJson, repoContext, ctx,
                   scorecard, llm, analysis, response,
                   evaluation, answerReq>>

ReadmeReply(reply) ==
    /\ fReadme.st = "inflight"
    /\ fReadme' = fetchReadme(reply)
    /\ all' = AllAfter(fReadme', fTree, fPkg)
    /\ UNCHANGED <<pc, body, repoInfo, readme, files, packageJson, repoContext,
                   fTree, fPkg, treeLog, ctx, scorecard, llm, analysis, response,
                   evaluation, answerReq>>

PackageReply(reply) ==
    /\ fPkg.st = "inflight"
    /\ fPkg' = fetchPackageJson(reply)
    /\ all' = AllAfter(fPkg', fReadme, fTree)
    /\ UNCHANGED <<pc, body, repoInfo, readme, files, packageJson, repoContext,
                   fReadme, fTree, treeLog, ctx, scorecard, llm, analysis, response,
                   evaluation, answerReq>>

\* the reply to the tree request in flight: the loop returns, throws, goes on
\* to the next branch, or ends and throws the no-branch error
TreeReply(reply) ==
    /\ fTree.st = "inflight"
    /\ LET r == TreeAttempt(reply)
           logged == [treeLog EXCEPT ![Len(treeLog)].status = reply.status]
       IN  /\ fTree' =
                  IF r.kind = "return" THEN Fulfilled(r.files)
                  ELSE IF r.kind = "throw" THEN Rejected(r.message)
                  ELSE IF fTree.branch < Len(Branches)
                       THEN [st |-> "inflight", branch |-> fTree.branch + 1]
                       ELSE Rejected(NO_BRANCH_MESSAGE)
           /\ treeLog' =
                  IF r.kind = "continue" /\ fTree.branch < Len(Branches)
                  THEN Append(logged, [branch |-> Branches[fTree.branch + 1], status |-> -1])
                  ELSE logged
    /\ all' = IF fTree'.st = "inflight" THEN all ELSE AllAfter(fTree', fReadme, fPkg)
    /\ UNCHANGED <<pc, body, repoInfo, readme, files, packageJson, repoContext,
                   fReadme, fPkg, ctx, scorecard, llm, analysis, response,
                   evaluation, answerReq>>

\* mutant: the rate-limit case left out
FetchErrorResponse_NoRateLimit(message) ==
    IF Includes(message, NOT_FOUND) THEN ErrorResponse(404, REPO_NOT_FOUND)
    ELSE ErrorResponse(500, message)

\* the status the catch around the fetches answers with
FetchErrorResponse(message) ==
    IF Includes(message, NOT_FOUND) THEN ErrorResponse(404, REPO_NOT_FOUND)
    ELSE IF Includes(message, RATE_LIMIT) THEN ErrorResponse(429, RATE_LIMIT_EXCEEDED)
    ELSE ErrorResponse(500, message)

\* mutant: the catch around the fetches answers but does not return
AwaitAll_NoShortCircuit ==
    /\ pc = "await"
    /\ all.st \in {"fulfilled", "rejected"}
    /\ IF all.st = "fulfilled"
       THEN /\ readme' = fReadme.value
            /\ files' = fTree.value
            /\ packageJson' = fPkg.value
            /\ pc' = "context"
            /\ UNCHANGED response
       ELSE /\ response' = FetchErrorResponse(all.message)
            /\ pc' = "context"
            /\ UNCHANGED <<readme, files, packageJson>>
    /\ UNCHANGED <<body, repoInfo, repoContext, fReadme, fTree, fPkg, treeLog,
                   all, ctx, scorecard, llm, analysis,
                   evaluation, answerReq>>

\* the await of Promise.all resumes the handler
AwaitAll ==
    /\ pc = "await"
    /\ all.st \in {"fulfilled", "rejected"}
    /\ IF all.st = "fulfilled"
       THEN /\ readme' = fReadme.value
            /\ files' = fTree.value
            /\ packageJson' = fPkg.value
            /\ pc' = "context"
            /\ UNCHANGED response
       ELSE /\ response' = FetchErrorResponse(all.message)
            /\ pc' = "done"
            /\ UNCHANGED <<readme, files, packageJson>>
    /\ UNCHANGED <<body, repoInfo, repoContext, fReadme, fTree, fPkg, treeLog,
                   all, ctx, scorecard, llm, analysis,
                   evaluation, answerReq>>

\* fetchRepoContext is called: it filters the files and issues the first batch
ContextStart ==
    /\ pc = "context"
    /\ ctx.st = "idle"
    /\ LET pf == priorityFiles(files)
       IN  IF pf = <<>>
           THEN /\ ctx' = [st |-> "done", priority |-> pf, log |-> <<>>]
                /\ repoContext' = <<>>
                /\ pc' = "score"
           ELSE /\ ctx' = [st |-> "batch", priority |-> pf, i |-> 0,
                           pending |-> BatchIndices(0, Len(pf)),
                           results |-> [k \in BatchIndices(0, Len(pf)) |-> JsNull],
                           parts |-> <<>>,
                           log |-> IssueBatch(<<>>, 0, Len(pf))]
                /\ UNCHANGED <<repoContext, pc>>
    /\ UNCHANGED <<body, repoInfo, readme, files, packageJson, fReadme, fTree,
                   fPkg, treeLog, all, scorecard, llm, analysis, response,
                   evaluation, answerReq>>

\* mutant: a part is pushed to the context when its reply arrives
ContextFileReply_PushOnArrival(k, reply) ==
    /\ pc = "context"
    /\ ctx.st = "batch"
    /\ k \in ctx.pending
    /\ LET part == ContextPart(ctx.priority[k], reply)
       IN  ctx' = [ctx EXCEPT !.pending = @ \ {k},
                              !.parts = IF part = JsNull THEN @ ELSE Append(@, part),
                              !.log[k] = reply]
    /\ UNCHANGED <<pc, body, repoInfo, readme, files, packageJson, repoContext,
                   fReadme, fTree, fPkg, treeLog, all, scorecard, llm, analysis,
                   response, evaluation, answerReq>>

\* the reply to the content request of file k of the batch in flight
ContextFileReply(k, reply) ==
    /\ pc = "context"
    /\ ctx.st = "batch"
    /\ k \in ctx.pending
    /\ ctx' = [ctx EXCEPT !.pending = @ \ {k},
                          !.results[k] = ContextPart(ctx.priority[k], reply),
                          !.log[k] = reply]
    /\ UNCHANGED <<pc, body, repoInfo, readme, files, packageJson, repoContext,
                   fReadme, fTree, fPkg, treeLog, all, scorecard, llm, analysis,
                   response,
                   evaluation, answerReq>>

\* the Promise.all of a batch resolves: its parts are pushed, and the next
\* batch is issued or the context returned
ContextJoin ==
    /\ pc = "context"
    /\ ctx.st = "batch"
    /\ ctx.pending = {}
    /\ LET n == Len(ctx.priority)
           parts == ctx.parts \o BatchParts(ctx.results, ctx.i + 1,
                                            Min(ctx.i + BATCH_SIZE, n))
           i == ctx.i + BATCH_SIZE
       IN  IF i < n
           THEN /\ ctx' = [ctx EXCEPT !.i = i,
                                      !.pending = BatchIndices(i, n),
                                      !.results = [k \in BatchIndices(i, n) |-> JsNull],
                                      !.parts = parts,
                                      !.log = IssueBatch(ctx.log, i, n)]
                /\ UNCHANGED <<repoContext, pc>>
           ELSE /\ ctx' = [st |-> "done", priority |-> ctx.priority, log |-> ctx.log]
                /\ repoContext' = parts
                /\ pc' = "score"
    /\ UNCHANGED <<body, repoInfo, readme, files, packageJson, fReadme, fTree,
                   fPkg, treeLog, all, scorecard, llm, analysis, response,
                   evaluation, answerReq>>

\* mutant: a failed call to the LLM is made again
Analyze_RetryOnFailure(service) ==
    /\ pc = "analyze"
    /\ llm' = service
    /\ IF service.key /\ service.status # 200
       THEN UNCHANGED <<analysis, pc, response>>
       ELSE /\ analysis' = analyzeRepository(service)
            /\ pc' = "respond"
            /\ UNCHANGED response
    /\ UNCHANGED <<body, repoInfo, readme, files, packageJson, repoContext,
                   fReadme, fTree, fPkg, treeLog, all, ctx, scorecard,
                   evaluation, answerReq>>

\* const analysis = await analyzeRepository(...), inside the outer try: an
\* error leaving analyzeRepository would be answered by the outer catch
Analyze(service) ==
    /\ pc = "analyze"
    /\ llm' = service
    /\ LET result == analyzeRepository(service)
       IN  IF result = Raised
           THEN /\ response' = ErrorResponse(500, INTERNAL_SERVER_ERROR)
                /\ pc' = "done"
                /\ UNCHANGED analysis
           ELSE /\ analysis' = result
                /\ pc' = "respond"
                /\ UNCHANGED response
    /\ UNCHANGED <<body, repoInfo, readme, files, packageJson, repoContext,
                   fReadme, fTree, fPkg, treeLog, all, ctx, scorecard,
                   evaluation, answerReq>>

\* mutant: the score of the LLM reported as the heuristic score
SuccessResponse_AiScore ==
    [status |-> 200,
     repo |-> [owner |-> repoInfo.owner, name |-> repoInfo.name],
     summary |-> analysis.summary,
     scorecard |->
         [ai_score |-> analysis.scorecard.score,
          ai_reasoning |-> analysis.scorecard.reasoning,
          ai_probability |-> analysis.scorecard.ai_probability_score,
          ai_forensics |-> analysis.scorecard.ai_probability_reasoning,
          heuristic_score |-> analysis.scorecard.score,
          breakdown |->
              [documentation |-> scorecard.breakdown.documentation,
               structure |-> scorecard.breakdown.structure,
               completeness |-> scorecard.breakdown.completeness,
               engineering_maturity |-> scorecard.breakdown.engineering_maturity]],
     technical_questions |-> analysis.technical_questions,
     notes |-> analysis.technical_notes]

\* the response object of the handler
SuccessResponse ==
    [status |-> 200,
     repo |-> [owner |-> repoInfo.owner, name |-> repoInfo.name],
     summary |-> analysis.summary,
     scorecard |->
         [ai_score |-> analysis.scorecard.score,
          ai_reasoning |-> analysis.scorecard.reasoning,
          ai_probability |-> analysis.scorecard.ai_probability_score,
          ai_forensics |-> analysis.scorecard.ai_probability_reasoning,
          heuristic_score |-> scorecard.overall,
          breakdown |->
              [documentation |-> scorecard.breakdown.documentation,
               structure |-> scorecard.breakdown.structure,
               completeness |-> scorecard.breakdown.completeness,
               engineering_maturity |-> scorecard.breakdown.engineering_maturity]],
     technical_questions |-> analysis.technical_questions,
     notes |-> analysis.technical_notes]

Respond ==
    /\ pc = "respond"
    /\ response' = SuccessResponse
    /\ pc' = "done"
    /\ UNCHANGED <<body, repoInfo, readme, files, packageJson, repoContext,
                   fReadme, fTree, fPkg, treeLog, all, ctx, scorecard, llm,
                   analysis,
                   evaluation, answerReq>>

-----------------------------------------------------------------------------
(* POST /api/v1/evaluate-answer *)

MISSING_README == "Missing or invalid \"readme\" field"
MISSING_QUESTION == "Missing or invalid \"question\" field"
MISSING_ANSWER == "Missing or invalid \"answer\" field"

\* the body of the outer catch's response: the error and the message of what
\* was raised
AnswerFailure(message) ==
    [status |-> 500, error |-> INTERNAL_SERVER_ERROR, message |-> message]

\* !v || typeof v !== 'string'
NotAString(v) == Falsy(v) \/ v.t # "string"

\* NextResponse.json(evaluation)
AnswerResponse(result) ==
    [status |-> 200,
     understanding_score |-> result.understanding_score,
     breakdown |-> result.breakdown,
     flags |-> result.flags,
     notes |-> result.notes,
     confidence_level |-> result.confidence_level]

\* what the handler answers without calling the evaluator: Unset when the
\* three fields pass the checks
AnswerRejection(b) ==
    IF b.t = "invalid_json" THEN AnswerFailure("SyntaxError")
    ELSE IF b.t = "null" THEN AnswerFailure("TypeError")
    ELSE IF NotAString(b.readme) THEN ErrorResponse(400, MISSING_README)
    ELSE IF NotAString(b.question) THEN ErrorResponse(400, MISSING_QUESTION)
    ELSE IF NotAString(b.answer) THEN ErrorResponse(400, MISSING_ANSWER)
    ELSE Unset

\* request.json(), the destructuring and the three input checks
AnswerValidate ==
    /\ answerReq.pc = "validate"
    /\ LET rejection == AnswerRejection(answerReq.body)
       IN  answerReq' =
               IF rejection # Unset
               THEN [answerReq EXCEPT !.pc = "done", !.response = rejection]
               ELSE [answerReq EXCEPT !.pc = "evaluate"]
    /\ UNCHANGED <<pc, body, repoInfo, readme, files, packageJson, repoContext,
                   fReadme, fTree, fPkg, treeLog, all, ctx, scorecard, llm,
                   analysis, response, evaluation>>

\* mutant: the reply of the LLM is kept where the analyze-repo request keeps its
AnswerEvaluate_SharedLlm(service) ==
    /\ answerReq.pc = "evaluate"
    /\ llm' = service
    /\ LET result == evaluateAnswer(service)
       IN  /\ evaluation' = result
           /\ answerReq' =
                  [answerReq EXCEPT !.pc = "done", !.llm = service,
                                    !.response = AnswerResponse(result)]
    /\ UNCHANGED <<pc, body, repoInfo, readme, files, packageJson, repoContext,
                   fReadme, fTree, fPkg, treeLog, all, ctx, scorecard,
                   analysis, response>>

\* const evaluation = await evaluateAnswer(readme, question, answer) and the
\* response made of it; what evaluateAnswer raises goes to the outer catch
AnswerEvaluate(service) ==
    /\ answerReq.pc = "evaluate"
    /\ LET result == evaluateAnswer(service)
       IN  IF result = Raised
           THEN /\ answerReq' =
                       [answerReq EXCEPT !.pc = "done", !.llm = service,
                                         !.response = AnswerFailure("Error")]
                /\ UNCHANGED evaluation
           ELSE /\ evaluation' = result
                /\ answerReq' =
                       [answerReq EXCEPT !.pc = "done", !.llm = service,
                                         !.response = AnswerResponse(result)]
    /\ UNCHANGED <<pc, body, repoInfo, readme, files, packageJson, repoContext,
                   fReadme, fTree, fPkg, treeLog, all, ctx, scorecard, llm,
                   analysis, response>>

-----------------------------------------------------------------------------
(* Inputs *)

SCHEME_HTTPS == <<"h","t","t","p","s",":","/","/">>
WWW_DOT == <<"w","w","w",".">>
GITLAB_COM_SLASH == <<"g","i","t","l","a","b",".","c","o","m","/">>
TREE_MAIN == <<"/","t","r","e","e","/","m","a","i","n">>
CI_YML == <<".","g","i","t","h","u","b","/","w","o","r","k","f","l","o","w",
    "s","/","c","i",".","y","m","l">>
CONTRIBUTING_MD == <<"C","O","N","T","R","I","B","U","T","I","N","G",".",
    "m","d">>
WEB_PACKAGE_JSON == <<"w","e","b","/","p","a","c","k","a","g","e",".","j",
    "s","o","n">>
SRC_M == <<"s","r","c","/","m">>
SRC_T == <<"s","r","c","/","t">>
DOT_TEST_TS == <<".","t","e","s","t",".","t","s">>

README_MD == <<"R","E","A","D","M","E",".","m","d">>
SRC_DIR == <<"s","r","c">>

\* "https://github.com/a/b.git/"
ExampleUrl ==
    SCHEME_HTTPS \o GITHUB_COM_SLASH \o <<"a", "/", "b">> \o DOT_GIT \o <<"/">>

UrlOwners == {<<"a">>, <<"m", "s", "n">>}
UrlNames == {<<"b">>, <<"a", "p", "i">>, <<"d", "o", "t", ".", "j", "s">>}
UrlSuffixes ==
    {<<>>, <<"/">>, DOT_GIT, DOT_GIT \o <<"/">>, TREE_MAIN, <<"/">> \o DOT_GIT}

UrlInputs ==
    {scheme \o host \o owner \o <<"/">> \o name \o suffix :
        scheme \in {<<>>, SCHEME_HTTPS, SCHEME_HTTPS \o WWW_DOT},
        host \in {GITHUB_COM_SLASH, GITLAB_COM_SLASH},
        owner \in UrlOwners, name \in UrlNames, suffix \in UrlSuffixes}
    \cup {SCHEME_HTTPS \o GITHUB_COM_SLASH \o owner \o suffix :
            owner \in UrlOwners, suffix \in {<<>>, <<"/">>, DOT_GIT}}
    \cup {SCHEME_HTTPS \o GITHUB_COM_SLASH, GITHUB_COM_SLASH \o <<"/", "a", "/", "b">>}

BodyInputs ==
    {[t |-> "object", repo_url |-> JsString(u)] : u \in UrlInputs}
    \cup {[t |-> "object", repo_url |-> v] :
            v \in {JsUndefined, JsNull, JsNumber(0), JsNumber(7), JsString(<<>>)}}
    \cup {[t |-> "null"], [t |-> "invalid_json"]}

SpecialFiles ==
    <<PACKAGE_JSON, CI_YML, LICENSE, CONTRIBUTING_MD, ENV_EXAMPLE, WEB_PACKAGE_JSON>>

\* the special files with an index in S, in the order of SpecialFiles
RECURSIVE PickFrom(_, _)
PickFrom(k, S) ==
    IF k > Len(SpecialFiles) THEN <<>>
    ELSE (IF k \in S THEN <<SpecialFiles[k]>> ELSE <<>>) \o PickFrom(k + 1, S)

TestFile(i) == SRC_T \o Digits(i) \o DOT_TEST_TS
FillFile(i) == SRC_M \o Digits(i) \o DOT_TS

\* "https://github.com/msn/api"
RepoUrl ==
    SCHEME_HTTPS \o GITHUB_COM_SLASH \o <<"m", "s", "n", "/", "a", "p", "i">>

HandlerBodies ==
    {[t |-> "object", repo_url |-> JsString(RepoUrl)],
     [t |-> "object", repo_url |-> JsString(SCHEME_HTTPS \o GITLAB_COM_SLASH \o <<"a", "/", "b">>)],
     [t |-> "object", repo_url |-> JsUndefined],
     [t |-> "null"],
     [t |-> "invalid_json"]}

NoJson == [t |-> "syntax_error"]
File(content, json) == [t |-> "file", content |-> content, json |-> json]
Answer(data) == [status |-> 200, data |-> data]
Failure(status) == [status |-> status]

\* the answers other than a usable 2xx: no answer, not found, forbidden, a
\* server error, a 2xx whose body lacks the expected field
Failures == {Failure(0), Failure(404), Failure(403), Failure(500), Answer([t |-> "other"])}

ReadmeReplies ==
    Failures \cup {Answer(File(Rep("r", n), NoJson)) : n \in {0, 600, 12000}}

Blob(path) == [path |-> path, type |-> "blob"]
Dir(path) == [path |-> path, type |-> "tree"]

TreeInputs ==
    {<<>>,
     <<Blob(README_MD), Blob(LICENSE)>>,
     <<Blob(CI_YML), Blob(README_MD), Blob(PACKAGE_JSON), Dir(SRC_DIR), Blob(FillFile(1))>>}

TreeReplies == Failures \cup {Answer([t |-> "tree", tree |-> tr]) : tr \in TreeInputs}

PackageReplies ==
    Failures
    \cup {Answer([t |-> "dir"]),
          Answer(File(Rep("{", 80), JsObject([dependencies |-> JsObject([next |-> JsString("14")])]))),
          Answer(File(Rep("<", 80), NoJson))}

FileReplies ==
    {Failure(404), Failure(403), Failure(500), Answer([t |-> "dir"]),
     Answer(File(Rep("c", 40), NoJson)), Answer(File(Rep("c", 7000), NoJson))}

Questions(n) == [i \in 1..n |-> JsString("question")]

LlmObjects ==
    {JsObject([summary |-> JsString("summary"),
               scorecard |-> JsObject([score |-> JsNumber(88), reasoning |-> JsString("reasoning"),
                                       ai_probability_score |-> JsNumber(10),
                                       ai_probability_reasoning |-> JsString("forensics")]),
               technical_questions |-> JsArray(Questions(6)),
               technical_notes |-> JsArray(<<JsString("note")>>)]),
     JsObject([summary |-> JsArray(<<JsString("summary")>>),
               scorecard |-> JsObject([score |-> JsString("88"), reasoning |-> JsUndefined,
                                       ai_probability_score |-> JsUndefined,
                                       ai_probability_reasoning |-> JsUndefined]),
               technical_questions |-> JsArray(<<JsNumber(1)>> \o Questions(2)),
               technical_notes |-> JsString("note")])}

LlmTexts ==
    {<<JsonText(v)>> : v \in LlmObjects \cup {JsNull, JsNumber(3)}}
    \cup {<<FenceJson, Newline, JsonText(v), Newline, Fence>> : v \in LlmObjects}
    \cup {<<Fence, Newline, JsonText(v), Newline, Fence>> : v \in LlmObjects}
    \cup {<<Junk>>}

LlmServices ==
    {[key |-> FALSE, status |-> 0, text |-> <<>>]}
    \cup {[key |-> TRUE, status |-> st, text |-> <<>>] : st \in {0, 200, 500}}
    \cup {[key |-> TRUE, status |-> 200, text |-> tx] : tx \in LlmTexts}

FileList(S, nTests, nFill) ==
    PickFrom(1, S) \o [i \in 1..nTests |-> TestFile(i)] \o [i \in 1..nFill |-> FillFile(i)]

\* with up to 11 special and test files in front, these paddings put the
\* length of the list on both sides of 5, 20 and 50, and on 60
FillCentres == {3, 19, 50}

FillCounts ==
    {n \in 0..100 : \E c \in FillCentres : c - FillSlack <= n /\ n <= c + FillSlack}

ScoreFileInputs ==
    {FileList(S, k, n) :
        S \in SUBSET (1..Len(SpecialFiles)), k \in 0..MaxTests, n \in FillCounts}

ReadmeThresholds == {0, 500, 2000, 5000, 6000, 10000}

ReadmeLengths ==
    {n \in 0..(10000 + ReadmeSlack) :
        \/ \E c \in ReadmeThresholds : c - ReadmeSlack <= n /\ n <= c + ReadmeSlack
        \/ n % 250 = 0 /\ n <= 250 * MaxReadmeBlocks}

ReadmeInputs ==
    {Rep("a", n) : n \in ReadmeLengths}
    \cup {<<[ch |-> "#", n |-> 1]>> \o Rep("a", n - 1) : n \in ReadmeLengths \ {0}}

-----------------------------------------------------------------------------
(* Specifications *)

\* the handler's locals as declared, before any fetch
InitAnalyzeLocals ==
    /\ readme = <<>>
    /\ files = <<>>
    /\ packageJson = JsNull
    /\ repoContext = <<>>
    /\ fReadme = [st |-> "idle"]
    /\ fTree = [st |-> "idle"]
    /\ fPkg = [st |-> "idle"]
    /\ treeLog = <<>>
    /\ all = [st |-> "idle"]
    /\ ctx = [st |-> "idle"]
    /\ scorecard = Unset
    /\ llm = Unset
    /\ analysis = Unset
    /\ response = NoResponse
    /\ evaluation = Unset

InitLocals ==
    /\ InitAnalyzeLocals
    /\ answerReq = NoAnswerRequest

\* calculateScore called on a readme and a file list
InitScore ==
    /\ pc = "score"
    /\ body = [t |-> "object", repo_url |-> JsString(ExampleUrl)]
    /\ repoInfo = Unset
    /\ fReadme = [st |-> "idle"]
    /\ fTree = [st |-> "idle"]
    /\ fPkg = [st |-> "idle"]
    /\ treeLog = <<>>
    /\ all = [st |-> "idle"]
    /\ ctx = [st |-> "idle"]
    /\ packageJson = JsNull
    /\ repoContext = <<>>
    /\ scorecard = Unset
    /\ llm = Unset
    /\ analysis = Unset
    /\ response = NoResponse
    /\ evaluation = Unset
    /\ answerReq = NoAnswerRequest
    /\ \/ readme = Rep("a", 6000) /\ files \in ScoreFileInputs
       \/ readme \in ReadmeInputs /\ files \in {<<>>, <<PACKAGE_JSON>>}

SpecScore == InitScore /\ [][CalcScore]_vars

\* a request taken through validation and URL parsing
InitUrl ==
    /\ pc = "validate"
    /\ body \in BodyInputs
    /\ repoInfo = Unset
    /\ InitLocals

NextUrl == Validate \/ ParseUrl

SpecUrl == InitUrl /\ [][NextUrl]_vars

\* one request to POST /api/v1/analyze-repo, from its body to its response
Init ==
    /\ pc = "validate"
    /\ body \in HandlerBodies
    /\ repoInfo = Unset
    /\ InitLocals

Next ==
    \/ Validate
    \/ ParseUrl
    \/ StartFetch
    \/ \E reply \in ReadmeReplies : ReadmeReply(reply)
    \/ \E reply \in TreeReplies : TreeReply(reply)
    \/ \E reply \in PackageReplies : PackageReply(reply)
    \/ AwaitAll
    \/ ContextStart
    \/ \E k \in 1..MAX_PRIORITY_FILES, reply \in FileReplies : ContextFileReply(k, reply)
    \/ ContextJoin
    \/ CalcScore
    \/ \E service \in LlmServices : Analyze(service)
    \/ Respond

Spec == Init /\ [][Next]_vars

\* every call sent to GitHub or to the LLM is answered in the end, with success
\* or failure, and the handler is resumed whenever it can go on
SpecLive == Init /\ [][Next]_vars /\ WF_vars(Next)

\* a reply that yields content: a 2xx answer describing a file that is not empty
Usable(reply) ==
    /\ reply.status = 200
    /\ reply.data.t = "file"
    /\ StrLength(reply.data.content) > 0

\* the content requests answered so far without yielding content
Omitted ==
    IF ctx.st = "idle" THEN {}
    ELSE {k \in DOMAIN ctx.log : ctx.log[k] # InFlight /\ ~Usable(ctx.log[k])}

\* file lists with 0, 1, 4, 5, 6, 11, 30 and 32 prioritized files, behind a
\* file that is not prioritized
ContextFillCounts == {3, 4, 5, 10, 29, 31}

ContextFileInputs ==
    {<<>>, <<LICENSE>>, <<LICENSE, PACKAGE_JSON>>}
    \cup {<<LICENSE, README_MD, PACKAGE_JSON>> \o [i \in 1..n |-> FillFile(i)] :
            n \in ContextFillCounts}

ContextReplies ==
    {Failure(404), Failure(403), Failure(500), Answer([t |-> "dir"]),
     Answer(File(Rep("c", 40), NoJson))}

\* fetchRepoContext called by the handler on a fetched file list
InitContext ==
    /\ pc = "context"
    /\ body = [t |-> "object", repo_url |-> JsString(RepoUrl)]
    /\ repoInfo = [owner |-> <<"m", "s", "n">>, name |-> <<"a", "p", "i">>]
    /\ readme = <<>>
    /\ files \in ContextFileInputs
    /\ packageJson = JsNull
    /\ repoContext = <<>>
    /\ fReadme = Fulfilled(<<>>)
    /\ fTree = Fulfilled(files)
    /\ fPkg = Fulfilled(JsNull)
    /\ treeLog = <<[branch |-> Branches[1], status |-> 200]>>
    /\ all = [st |-> "fulfilled"]
    /\ ctx = [st |-> "idle"]
    /\ scorecard = Unset
    /\ llm = Unset
    /\ analysis = Unset
    /\ response = NoResponse
    /\ evaluation = Unset
    /\ answerReq = NoAnswerRequest

NextContext ==
    \/ ContextStart
    \/ \E k \in 1..MAX_PRIORITY_FILES, reply \in ContextReplies :
           /\ ContextFileReply(k, reply)
           /\ \/ Usable(reply)
              \/ /\ Len(ctx.priority) <= MaxFailingFiles
                 /\ Cardinality(Omitted) < MaxOmitted
    \/ ContextJoin

SpecContext == InitContext /\ [][NextContext]_vars

\* arrays of up to n elements, each a string or a number
MixedArrays(str, n) ==
    UNION {[1..k -> {JsString(str), JsNumber(1)}] : k \in 0..n}

QuestionValues ==
    {JsUndefined, JsNull, JsString("question")}
    \cup {JsArray(a) : a \in MixedArrays("question", MaxQuestions)}

NoteValues ==
    {JsUndefined, JsNull, JsString("note")}
    \cup {JsArray(a) : a \in MixedArrays("note", 2)}
    \cup {JsArray([i \in 1..6 |-> JsString("note")])}

AnalysisReply(summary, questions, notes) ==
    JsObject([summary |-> summary, scorecard |-> JsUndefined,
              technical_questions |-> questions,
              technical_notes |-> notes, notes |-> notes])

\* the values JSON.parse hands to the validators, null apart
ParsedReplies ==
    {AnalysisReply(JsString("summary"), q, n) :
        q \in QuestionValues, n \in {JsUndefined, JsArray(<<JsString("note")>>)}}
    \cup {AnalysisReply(JsArray(<<JsString("summary")>>), JsArray(Questions(3)), n) :
            n \in NoteValues}
    \cup {JsNumber(3), JsString("text"), JsArray(<<>>)}

SubScores ==
    {"consistency_with_readme", "specificity", "depth_of_reasoning",
     "honesty_and_limitations"}

\* what a reply may hold where a sub-score is expected
ScoreValues ==
    {JsUndefined, JsNull, JsNumber(-5), JsNumber(0), JsNumber(10), JsNumber(25),
     JsNumber(30), JsString("20"), JsString("high"), JsBool(TRUE)}

\* and where the understanding score is expected
UnderstandingValues ==
    {JsUndefined, JsNull, JsNumber(-1), JsNumber(40), JsNumber(90), JsNumber(150),
     JsString("90"), JsString("high")}

EvaluationReply(us, breakdown) ==
    JsObject([understanding_score |-> us, breakdown |-> breakdown,
              flags |-> JsArray(<<JsString("vague"), JsNumber(1)>>),
              notes |-> JsArray(<<JsString("note")>>),
              confidence_level |-> JsString("high")])

BreakdownOf(a, b, c, d) ==
    JsObject([consistency_with_readme |-> a, specificity |-> b,
              depth_of_reasoning |-> c, honesty_and_limitations |-> d])

\* what a reply may hold where the confidence level is expected
ConfidenceValues ==
    {JsUndefined, JsNull, JsString("low"), JsString("medium"), JsString("high"),
     JsString("HIGH"), JsNumber(1)}

NotedReply(notes, confidence) ==
    JsObject([understanding_score |-> JsNumber(40), breakdown |-> JsUndefined,
              flags |-> JsUndefined, notes |-> notes,
              confidence_level |-> confidence])

\* the replies of the evaluator's LLM as JSON.parse hands them on, null apart
EvaluatorReplies ==
    {EvaluationReply(us, BreakdownOf(a, b, JsNumber(10), JsNumber(25))) :
        us \in UnderstandingValues, a \in ScoreValues, b \in ScoreValues}
    \cup {EvaluationReply(us, bd) :
            us \in UnderstandingValues,
            bd \in {JsUndefined, JsNull, JsString("high"), JsArray(<<>>)}}
    \cup {NotedReply(n, c) : n \in NoteValues, c \in ConfidenceValues}

\* a validator called on a parsed reply
InitValidate ==
    /\ pc = "parsed"
    /\ llm \in {[parsed |-> p] : p \in ParsedReplies \cup EvaluatorReplies}
    /\ body = [t |-> "object", repo_url |-> JsString(RepoUrl)]
    /\ repoInfo = Unset
    /\ readme = <<>>
    /\ files = <<>>
    /\ packageJson = JsNull
    /\ repoContext = <<>>
    /\ fReadme = [st |-> "idle"]
    /\ fTree = [st |-> "idle"]
    /\ fPkg = [st |-> "idle"]
    /\ treeLog = <<>>
    /\ all = [st |-> "idle"]
    /\ ctx = [st |-> "idle"]
    /\ scorecard = Unset
    /\ analysis = Unset
    /\ response = NoResponse
    /\ evaluation = Unset
    /\ answerReq = NoAnswerRequest

ValidateAnalysis ==
    /\ pc = "parsed"
    /\ analysis' = validateAnalysis(llm.parsed)
    /\ pc' = "forensic"
    /\ UNCHANGED <<body, repoInfo, readme, files, packageJson, repoContext,
                   fReadme, fTree, fPkg, treeLog, all, ctx, scorecard, llm,
                   response, evaluation, answerReq>>

ValidateAnalysisBasic ==
    /\ pc = "parsed"
    /\ analysis' = validateAnalysisBasic(llm.parsed)
    /\ pc' = "basic"
    /\ UNCHANGED <<body, repoInfo, readme, files, packageJson, repoContext,
                   fReadme, fTree, fPkg, treeLog, all, ctx, scorecard, llm,
                   response, evaluation, answerReq>>

ValidateEvaluation ==
    /\ pc = "parsed"
    /\ evaluation' = validateEvaluation(llm.parsed)
    /\ pc' = "evaluation"
    /\ UNCHANGED <<body, repoInfo, readme, files, packageJson, repoContext,
                   fReadme, fTree, fPkg, treeLog, all, ctx, scorecard, llm,
                   analysis, response, answerReq>>

NextValidate == ValidateAnalysis \/ ValidateAnalysisBasic \/ ValidateEvaluation

SpecValidate == InitValidate /\ [][NextValidate]_vars

\* replies of the evaluator's LLM whose scores are numbers or missing
NumberValues ==
    {JsUndefined, JsNumber(-5), JsNumber(0), JsNumber(10), JsNumber(25), JsNumber(30)}

NumericReplies ==
    {EvaluationReply(us, BreakdownOf(a, b, JsNumber(10), JsNumber(25))) :
        us \in {JsUndefined, JsNumber(40), JsNumber(90)},
        a \in NumberValues, b \in NumberValues}

\* the texts of a reply: bare JSON, in a json fence, in a plain fence, between
\* line breaks, behind other text; and texts that hold no object
EvaluatorTexts ==
    UNION {{<<JsonText(v)>>,
            <<FenceJson, Newline, JsonText(v), Newline, Fence>>,
            <<Fence, Newline, JsonText(v), Newline, Fence>>,
            <<Newline, JsonText(v), Newline>>,
            <<Junk, JsonText(v)>>} : v \in NumericReplies}
    \cup {<<Junk>>, <<JsonText(JsNull)>>, <<JsonText(JsNumber(3))>>}

EvaluatorServices ==
    {[key |-> FALSE, status |-> 0, text |-> <<>>]}
    \cup {[key |-> TRUE, status |-> st, text |-> <<>>] : st \in {0, 200, 429, 500}}
    \cup {[key |-> TRUE, status |-> 200, text |-> tx] : tx \in EvaluatorTexts}

\* evaluateAnswer called on a readme, a question and an answer
InitEvaluate ==
    /\ pc = "evaluate"
    /\ body = [t |-> "object", repo_url |-> JsUndefined]
    /\ repoInfo = Unset
    /\ InitLocals

Evaluate(service) ==
    /\ pc = "evaluate"
    /\ llm' = service
    /\ evaluation' = evaluateAnswer(service)
    /\ pc' = "done"
    /\ UNCHANGED <<body, repoInfo, readme, files, packageJson, repoContext,
                   fReadme, fTree, fPkg, treeLog, all, ctx, scorecard, analysis,
                   response, answerReq>>

NextEvaluate == \E service \in EvaluatorServices : Evaluate(service)

SpecEvaluate == InitEvaluate /\ [][NextEvaluate]_vars

\* what the body of an evaluate-answer request may hold in a field
AnswerFieldValues ==
    {JsUndefined, JsNull, JsNumber(7), JsString(<<>>), JsString(<<"t">>)}

AnswerBodies ==
    {[t |-> "object", readme |-> r, question |-> q, answer |-> a] :
        r \in AnswerFieldValues, q \in AnswerFieldValues, a \in AnswerFieldValues}
    \cup {[t |-> "null"], [t |-> "invalid_json"]}

AnswerRequest(b) ==
    [pc |-> "validate", body |-> b, llm |-> Unset, response |-> NoResponse]

\* one request to POST /api/v1/evaluate-answer, from its body to its response
InitAnswer ==
    /\ pc = "idle"
    /\ body = [t |-> "object", repo_url |-> JsUndefined]
    /\ repoInfo = Unset
    /\ InitAnalyzeLocals
    /\ answerReq \in {AnswerRequest(b) : b \in AnswerBodies}

NextAnswer ==
    \/ AnswerValidate
    \/ \E service \in EvaluatorServices : AnswerEvaluate(service)

SpecAnswer == InitAnswer /\ [][NextAnswer]_vars

\* an analyze-repo request and an evaluate-answer request served at the same
\* time, each with a few of the replies its services can give
ConcurrentBodies ==
    {[t |-> "object", repo_url |-> JsString(RepoUrl)],
     [t |-> "object", repo_url |-> JsUndefined]}

ConcurrentReadmeReplies ==
    {Failure(404), Failure(500), Answer(File(Rep("r", 600), NoJson))}

ConcurrentTreeReplies ==
    {Failure(404),
     Answer([t |-> "tree",
             tree |-> <<Blob(CI_YML), Blob(README_MD), Blob(PACKAGE_JSON),
                        Dir(SRC_DIR), Blob(FillFile(1))>>])}

ConcurrentPackageReplies == {Failure(404), Answer(File(Rep("<", 80), NoJson))}

ConcurrentFileReplies == {Failure(404), Answer(File(Rep("c", 40), NoJson))}

ConcurrentLlmServices ==
    {[key |-> FALSE, status |-> 0, text |-> <<>>],
     [key |-> TRUE, status |-> 200, text |-> <<Junk>>]}

ConcurrentAnswerBodies ==
    {[t |-> "object", readme |-> JsString(<<"t">>), question |-> JsString(<<"t">>),
      answer |-> a] : a \in {JsUndefined, JsString(<<"t">>)}}

ConcurrentEvaluatorServices ==
    {[key |-> TRUE, status |-> 500, text |-> <<>>],
     [key |-> TRUE, status |-> 200,
      text |-> <<JsonText(EvaluationReply(JsUndefined,
                    BreakdownOf(JsNumber(10), JsNumber(10), JsNumber(10), JsNumber(25))))>>]}

InitConcurrent ==
    /\ pc = "validate"
    /\ body \in ConcurrentBodies
    /\ repoInfo = Unset
    /\ InitAnalyzeLocals
    /\ answerReq \in {AnswerRequest(b) : b \in ConcurrentAnswerBodies}

NextConcurrent ==
    \/ Validate
    \/ ParseUrl
    \/ StartFetch
    \/ \E reply \in ConcurrentReadmeReplies : ReadmeReply(reply)
    \/ \E reply \in ConcurrentTreeReplies : TreeReply(reply)
    \/ \E reply \in ConcurrentPackageReplies : PackageReply(reply)
    \/ AwaitAll
    \/ ContextStart
    \/ \E k \in 1..MAX_PRIORITY_FILES, reply \in ConcurrentFileReplies :
           ContextFileReply(k, reply)
    \/ ContextJoin
    \/ CalcScore
    \/ \E service \in ConcurrentLlmServices : Analyze(service)
    \/ Respond
    \/ AnswerValidate
    \/ \E service \in ConcurrentEvaluatorServices : AnswerEvaluate(service)

SpecConcurrent == InitConcurrent /\ [][NextConcurrent]_vars

-----------------------------------------------------------------------------
(* Claims *)

Elements(fs) == {fs[i] : i \in 1..Len(fs)}

HasDotTest(file) == Includes(file, DOT_TEST_DOT)

\* C1: whatever the readme and the file list, the overall score calculateScore
\* returns is exactly documentation + structure + completeness +
\* engineering_maturity, and lies in 0..100.
C1_OverallIsSum ==
    scorecard # Unset =>
        /\ scorecard.overall =
               scorecard.breakdown.documentation + scorecard.breakdown.structure
               + scorecard.breakdown.completeness
               + scorecard.breakdown.engineering_maturity
        /\ scorecard.overall \in 0..100

\* a scored input that reaches the top of the range through all four categories
C1_Witness ==
    /\ scorecard # Unset
    /\ scorecard.overall = 100
    /\ scorecard.breakdown.engineering_maturity = 30

\* C2: the documentation score is determined by the length of the readme alone:
\* 0 for length 0, 10 for 1..500, 15 for 501..2000, 20 for 2001..5000 and 25
\* above 5000; so it never decreases as the length grows and stays in 0..25.
C2_DocumentationByLength ==
    scorecard # Unset =>
        LET n == StrLength(readme)
            d == scorecard.breakdown.documentation
        IN  /\ d \in 0..25
            /\ d = (CASE n = 0 -> 0
                      [] n \in 1..500 -> 10
                      [] n \in 501..2000 -> 15
                      [] n \in 2001..5000 -> 20
                      [] OTHER -> 25)

\* a readme of exactly 500 characters, not all alike, scored 10
C2_Witness ==
    /\ scorecard # Unset
    /\ StrLength(readme) = 500
    /\ Len(readme) = 2
    /\ scorecard.breakdown.documentation = 10

\* the scenario of C3: a readme of 6000 characters and 60 files among which
\* .github/workflows/ci.yml, LICENSE, CONTRIBUTING.md and 4 paths with ".test."
C3_Scenario ==
    /\ scorecard # Unset
    /\ StrLength(readme) = 6000
    /\ Len(files) = 60
    /\ {CI_YML, LICENSE, CONTRIBUTING_MD} \subseteq Elements(files)
    /\ CountIf(files, HasDotTest) = 4

C3_Scorecard ==
    [overall |-> 95,
     breakdown |-> [documentation |-> 25, structure |-> 25, completeness |-> 20,
                    engineering_maturity |-> 25]]

\* C3 as stated: every input of the scenario is scored 25, 25, 20, 25, overall 95.
C3_Original == C3_Scenario => scorecard = C3_Scorecard

\* C3 as amended: an input of the scenario whose file list also holds
\* package.json and no path containing ".example" is scored 25, 25, 20, 25,
\* overall 95.
C3_WithManifestNoExample ==
    (/\ C3_Scenario
     /\ PACKAGE_JSON \in Elements(files)
     /\ \A f \in Elements(files) : ~Includes(f, DOT_EXAMPLE))
    => scorecard = C3_Scorecard

C3_Witness ==
    /\ C3_Scenario
    /\ PACKAGE_JSON \in Elements(files)
    /\ \A f \in Elements(files) : ~Includes(f, DOT_EXAMPLE)
    /\ scorecard.overall = 95

\* C4: "https://github.com/a/b.git/" parses to owner "a" and name "b".
C4_DotGitSlash ==
    (/\ pc \in {"fetch", "done"}
     /\ body = [t |-> "object", repo_url |-> JsString(ExampleUrl)])
    => repoInfo = [owner |-> <<"a">>, name |-> <<"b">>]

\* C5: the heuristic score and the four breakdown fields of a 200 response are
\* those of calculateScore on the fetched readme and file list, whatever the
\* LLM service did; the score the LLM estimated appears only as ai_score.
C5_ScorecardFromFetchedData ==
    response.status = 200 =>
        /\ response.scorecard.heuristic_score = calculateScore(readme, files).overall
        /\ response.scorecard.breakdown = calculateScore(readme, files).breakdown
        /\ response.scorecard.ai_score = analysis.scorecard.score

\* a 200 response to a request whose LLM reply parsed and carried a score of
\* its own, different from the heuristic score
C5_Witness ==
    /\ response.status = 200
    /\ llm.key /\ llm.status = 200 /\ llm.text # <<>>
    /\ response.scorecard.ai_score = 88
    /\ response.scorecard.heuristic_score \in 1..87

\* the tree requests issued so far, and those answered
Requested(branch) == \E i \in 1..Len(treeLog) : treeLog[i].branch = branch
Answered(i) == i <= Len(treeLog) /\ treeLog[i].status # -1

\* C6: fetchFileTree requests main first and master only after main answered
\* 404; after a 2xx answer for main no request for master is issued; when both
\* answer 404 it fails with the no-branch error; it makes at most two requests.
\* (A request for main that got no answer at all is left aside: the claim is
\* about what main answered.)
C6_MainThenMasterOn404 ==
    /\ Len(treeLog) <= 2
    /\ Len(treeLog) >= 1 => treeLog[1].branch = "main"
    /\ Len(treeLog) = 2 => treeLog[2].branch = "master"
    /\ (Len(treeLog) = 2 /\ treeLog[1].status # 0) => treeLog[1].status = 404
    /\ (Answered(1) /\ treeLog[1].status \in 200..299) => ~Requested("master")
    /\ (Answered(2) /\ treeLog[1].status = 404 /\ treeLog[2].status = 404)
           => fTree = Rejected(NO_BRANCH_MESSAGE)

\* C7: a 403 to the request for main rejects fetchFileTree with the rate-limit
\* error and no request for master is issued; a 403 to the request for master,
\* after a 404 for main, rejects it with the rate-limit error too.
C7_ForbiddenIsRateLimit ==
    /\ (Answered(1) /\ treeLog[1].status = 403)
           => Len(treeLog) = 1 /\ fTree = Rejected(RATE_LIMIT_MESSAGE)
    /\ (Answered(2) /\ treeLog[1].status = 404 /\ treeLog[2].status = 403)
           => fTree = Rejected(RATE_LIMIT_MESSAGE)

\* main answered 404, master 403, and the fetch failed with the rate-limit error
C7_Witness ==
    /\ Answered(2)
    /\ treeLog[1].status = 404
    /\ treeLog[2].status = 403
    /\ fTree = Rejected(RATE_LIMIT_MESSAGE)

\* the handler has answered and the three fetches have all settled
Settled ==
    /\ pc = "done"
    /\ \A p \in {fReadme.st, fTree.st, fPkg.st} : p \in {"fulfilled", "rejected"}

OnlyFailed(p, q1, q2) ==
    p.st = "rejected" /\ q1.st = "fulfilled" /\ q2.st = "fulfilled"

\* C8: when one fetch alone fails, the tree fetch for want of a branch is
\* answered 404, and the README, tree or manifest fetch on a 403 is answered 429.
C8_SingleFailureStatus ==
    Settled =>
        /\ (OnlyFailed(fTree, fReadme, fPkg) /\ fTree.message = NO_BRANCH_MESSAGE)
               => response.status = 404
        /\ (OnlyFailed(fTree, fReadme, fPkg) /\ fTree.message = RATE_LIMIT_MESSAGE)
               => response.status = 429
        /\ (OnlyFailed(fReadme, fTree, fPkg) /\ fReadme.message = RATE_LIMIT_MESSAGE)
               => response.status = 429
        /\ (OnlyFailed(fPkg, fReadme, fTree) /\ fPkg.message = RATE_LIMIT_MESSAGE)
               => response.status = 429

\* the manifest fetch alone failed, on a 403, and the answer is 429
C8_Witness ==
    /\ Settled
    /\ OnlyFailed(fPkg, fReadme, fTree)
    /\ fPkg.message = RATE_LIMIT_MESSAGE
    /\ response.status = 429

\* C9: an upstream failure that is neither a 404 nor a 403 is answered 500: a
\* 500 to the tree request for both branches, or a 500 to the README request,
\* with the other fetches successful.
C9_OtherFailureIs500 ==
    Settled =>
        /\ (/\ OnlyFailed(fTree, fReadme, fPkg)
            /\ Len(treeLog) = 2 /\ treeLog[1].status = 500 /\ treeLog[2].status = 500)
               => response.status = 500
        /\ (OnlyFailed(fReadme, fTree, fPkg) /\ fReadme.message = StatusError(500))
               => response.status = 500

\* C10: whatever the upstream answers to the request for package.json,
\* fetchPackageJson does not reject, so a request whose README and tree fetches
\* succeeded is answered 200.
C10_ManifestNeverRaises ==
    (/\ Settled
     /\ fReadme.st = "fulfilled"
     /\ fTree.st = "fulfilled"
     /\ fPkg # Rejected(FETCH_FAILED_MESSAGE))
    => fPkg.st = "fulfilled" /\ response.status = 200

\* the paths of the files whose content is in the context, in its order
ContextFiles == [i \in 1..Len(repoContext) |-> repoContext[i].file]

\* the prioritized files whose content request got a usable reply, in order
UsableFiles ==
    LET kept == SelectSeq([k \in 1..Len(ctx.priority) |-> k],
                          LAMBDA k : Usable(ctx.log[k]))
    IN  [i \in 1..Len(kept) |-> ctx.priority[kept[i]]]

\* C11: fetchRepoContext is best-effort per file.  When it has returned, the
\* content of every prioritized file was requested and answered, the context
\* holds exactly the files whose request yielded content, in their order (a
\* file whose request failed or came back empty is the only one left out, in
\* its batch and in later ones), and the handler goes on to scoring: nothing
\* was raised.
C11_BestEffortPerFile ==
    ctx.st = "done" =>
        /\ DOMAIN ctx.log = 1..Len(ctx.priority)
        /\ \A k \in DOMAIN ctx.log : ctx.log[k] # InFlight
        /\ ContextFiles = UsableFiles
        /\ pc = "score"
        /\ response = NoResponse

\* a file of the first of several batches yielded no content and every other
\* file is in the context
C11_Witness ==
    /\ ctx.st = "done"
    /\ Len(ctx.priority) > 2 * BATCH_SIZE
    /\ \E k \in 1..(BATCH_SIZE - 1) : Omitted = {k}
    /\ Len(repoContext) = Len(ctx.priority) - 1

\* the content request of a prioritized file was answered 403
ContextForbidden ==
    /\ ctx.st # "idle"
    /\ \E k \in DOMAIN ctx.log : ctx.log[k].status = 403

\* C12: a rate-limit error is not swallowed by the batching.  When the content
\* request of a prioritized file is answered 403, the request is answered 429.
C12_ContextRateLimitIs429 ==
    (ContextForbidden /\ response # NoResponse) => response.status = 429

\* the content requests of fetchRepoContext that are in flight
ContextInFlight ==
    IF ctx.st = "idle" THEN {}
    ELSE {k \in DOMAIN ctx.log : ctx.log[k] = InFlight}

\* the number of the batch request k belongs to
BatchOf(k) == (k - 1) \div 5

\* C13: during fetchRepoContext at most 5 content requests are in flight, a
\* request of a later batch is in flight only when every request of the
\* earlier batches has been answered, and at most 30 requests are issued
\* whatever the length of the file list.
C13_BoundedBatches ==
    ctx.st # "idle" =>
        /\ Cardinality(ContextInFlight) <= 5
        /\ \A k \in ContextInFlight :
               \A j \in DOMAIN ctx.log :
                   BatchOf(j) < BatchOf(k) => ctx.log[j] # InFlight
        /\ Len(ctx.log) <= 30

\* more than 30 files are prioritized and the requests of the last batch, the
\* sixth, are all in flight
C13_Witness ==
    /\ Len(SelectSeq(files, isPriority)) > 30
    /\ ctx.st = "batch"
    /\ Len(ctx.log) = 30
    /\ Cardinality(ContextInFlight) = 5

\* the stage of the request the handler is in
Stage ==
    CASE pc = "validate" -> 1
      [] pc = "parse" -> 2
      [] pc \in {"fetch", "await", "context"} -> 3
      [] pc = "score" -> 4
      [] pc = "analyze" -> 5
      [] pc = "respond" -> 6
      [] pc = "done" -> 7

\* no request was sent to GitHub
NoGitHubCall ==
    /\ fReadme.st = "idle" /\ fTree.st = "idle" /\ fPkg.st = "idle"
    /\ treeLog = <<>>
    /\ ctx.st = "idle"

Scored == scorecard # Unset
LlmCalled == llm # Unset

StagesInOrder ==
    \* scoring only after the three fetches have completed successfully
    /\ Scored =>
           fReadme.st = "fulfilled" /\ fTree.st = "fulfilled" /\ fPkg.st = "fulfilled"
    \* the LLM only after scoring, the 200 response only after the LLM
    /\ LlmCalled => Scored
    /\ response.status = 200 => LlmCalled
    \* answered on a validation or parse failure: nothing was sent to GitHub
    /\ (response # NoResponse /\ all.st = "idle") =>
           NoGitHubCall /\ ~Scored /\ ~LlmCalled
    /\ response.status = 400 => all.st = "idle"
    \* a fetch failed: no scoring, no LLM call, no content request
    /\ (fReadme.st = "rejected" \/ fTree.st = "rejected" \/ fPkg.st = "rejected") =>
           ~Scored /\ ~LlmCalled /\ ctx.st = "idle"
    \* an error response is the end of the request
    /\ (response # NoResponse /\ response.status # 200) =>
           pc = "done" /\ ~Scored /\ ~LlmCalled

\* C14: a request passes its stages in the order Validate, Parse URL, Fetch,
\* Score, Analyze, Respond, never going back; scoring starts only after the
\* README, tree and manifest fetches have all succeeded, the LLM is called only
\* after scoring, and after a failed stage nothing of a later stage is done: no
\* GitHub request after a validation or parse failure, no scoring and no LLM
\* call after a fetch failure.
C14_StagesInOrder ==
    /\ []StagesInOrder
    /\ [][\/ Stage' \in {Stage, Stage + 1}
          \/ pc' = "done" /\ response'.status # 200]_vars

\* a request answered 200 after all its stages: fetched, scored, analyzed
C14_Witness ==
    /\ pc = "done"
    /\ response.status = 200
    /\ Scored /\ LlmCalled
    /\ fTree.st = "fulfilled" /\ Len(treeLog) = 2
    /\ ctx.st = "done" /\ Len(ctx.log) > 0

AnalysisFields == {"summary", "scorecard", "technical_questions", "technical_notes"}
ScorecardFields ==
    {"score", "reasoning", "ai_probability_score", "ai_probability_reasoning"}
ResponseFields ==
    {"status", "repo", "summary", "scorecard", "technical_questions", "notes"}
ResponseScorecardFields ==
    {"ai_score", "ai_reasoning", "ai_probability", "ai_forensics",
     "heuristic_score", "breakdown"}

\* the LLM gave no usable analysis: no key, no answer, a non-2xx answer, an
\* empty reply, a reply that is not JSON, or JSON that is not an object
LlmFailed ==
    /\ LlmCalled
    /\ \/ ~llm.key
       \/ llm.status # 200
       \/ llm.text = <<>>
       \/ parseJSONResponse(llm.text).t # "object"
       \/ parseJSONResponse(llm.text) = EmptyObject

\* C15: analyzeRepository never propagates an error.  Whatever the LLM service
\* did (no API key, a non-2xx answer, an empty reply, an unparseable reply, a
\* reply that parses to a non-object) it returns an analysis with every field,
\* and a request whose GitHub fetches succeeded is answered 200 with every
\* field present.
C15_AnalysisNeverFails ==
    /\ LlmCalled =>
           /\ analysis # Unset
           /\ DOMAIN analysis = AnalysisFields
           /\ DOMAIN analysis.scorecard = ScorecardFields
    /\ (pc = "done" /\ all.st = "fulfilled") =>
           /\ response.status = 200
           /\ DOMAIN response = ResponseFields
           /\ DOMAIN response.scorecard = ResponseScorecardFields

\* a request answered 200 although the reply of the LLM parsed to null
C15_Witness ==
    /\ pc = "done"
    /\ response.status = 200
    /\ LlmFailed
    /\ llm.key /\ llm.status = 200
    /\ llm.text = <<JsonText(JsNull)>>

\* the strings among the first n elements of the questions of the reply
SuppliedQuestions(n) ==
    LET tq == Get(llm.parsed, "technical_questions")
    IN  IF tq.t = "array" THEN Strings(tq.a, n) ELSE <<>>

IsPrefix(a, b) == Len(a) <= Len(b) /\ SubSeq(b, 1, Len(a)) = a

QuestionStrings ==
    {"question", MORE_DETAILS}
    \cup {DEFAULT_QUESTIONS[i] : i \in DOMAIN DEFAULT_QUESTIONS}
    \cup {FALLBACK_QUESTIONS[i] : i \in DOMAIN FALLBACK_QUESTIONS}

\* C16: for every parsed reply validateAnalysis returns technical_questions
\* of the arity of its variant, exactly 3 in the first version and 5 to 6 in the
\* forensic one (so at least 3 in both), made of the strings the reply
\* supplied, in their order, filled up with fixed filler strings.
C16_QuestionArity ==
    /\ pc = "basic" =>
           /\ Len(analysis.technical_questions) = 3
           /\ \/ IsPrefix(SuppliedQuestions(3), analysis.technical_questions)
              \/ analysis.technical_questions = DEFAULT_QUESTIONS
    /\ pc = "forensic" =>
           /\ Len(analysis.technical_questions) \in 5..6
           /\ IsPrefix(SuppliedQuestions(6), analysis.technical_questions)
    /\ pc \in {"basic", "forensic"} =>
           /\ Len(analysis.technical_questions) >= 3
           /\ \A i \in DOMAIN analysis.technical_questions :
                  analysis.technical_questions[i] \in QuestionStrings

\* the reply lists seven elements of which the third is not a string, and the
\* forensic validator returned five questions, the fifth a filler
C16_Witness ==
    /\ pc = "forensic"
    /\ Get(llm.parsed, "technical_questions").t = "array"
    /\ Len(Get(llm.parsed, "technical_questions").a) = 7
    /\ Len(SuppliedQuestions(6)) = 4
    /\ Len(analysis.technical_questions) = 5
    /\ analysis.technical_questions[5] = FALLBACK_QUESTIONS[5]

\* the reply of the LLM was JSON text (possibly fenced) of an object
LlmParsed ==
    /\ LlmCalled
    /\ llm.key /\ llm.status = 200
    /\ LET cleaned == Trim(StripFenceEnd(StripFenceJson(llm.text)))
       IN  Len(cleaned) = 1 /\ cleaned[1].k = "json" /\ cleaned[1].v.t = "object"

\* C17: the notes of an analysis never disappear.  When the reply of the LLM
\* has no technical_notes, or not an array, or an array without a string, the
\* notes are a one-element placeholder array, so the notes of a 200 response
\* are never an empty array.
C17_NotesNeverEmpty ==
    (response.status = 200 /\ LlmParsed) => Len(response.notes) > 0

\* x is a number from lo to hi
InRange(x, lo, hi) == x.t = "number" /\ lo <= x.n /\ x.n <= hi

\* the sum of the four sub-scores of an evaluation
BreakdownSum(e) ==
    Plus(Plus(Plus(e.breakdown.consistency_with_readme, e.breakdown.specificity),
              e.breakdown.depth_of_reasoning),
         e.breakdown.honesty_and_limitations)

\* C18: for every parsed reply validateEvaluation returns each of the four
\* sub-scores within 0..25 and the understanding score within 0..100, and when
\* the reply carries no understanding score the returned one is the sum of the
\* four returned sub-scores.
C18_ScoresClamped ==
    pc = "evaluation" =>
        /\ \A k \in SubScores : InRange(evaluation.breakdown[k], 0, 25)
        /\ InRange(evaluation.understanding_score, 0, 100)
        /\ Get(llm.parsed, "understanding_score").t \in {"undefined", "null"} =>
               evaluation.understanding_score = BreakdownSum(evaluation)

\* C19: in every result of evaluateAnswer the four sub-scores of the breakdown
\* sum to understanding_score, also when the reply of the LLM reports an
\* understanding_score of its own beside the breakdown.
C19_BreakdownSumsToScore ==
    pc = "done" => BreakdownSum(evaluation) = evaluation.understanding_score

EvaluationFields ==
    {"understanding_score", "breakdown", "flags", "notes", "confidence_level"}

\* the evaluator's LLM gave no usable reply: no API key, no answer, a non-2xx
\* answer, an empty reply, or a reply that does not parse
EvaluatorFailed ==
    \/ ~llm.key
    \/ llm.status # 200
    \/ llm.text = <<>>
    \/ parseEvaluationResponse(llm.text).threw

\* C20: evaluateAnswer never raises.  Without an API key and on every failure
\* of the LLM call (a non-2xx answer, an empty reply, an unparseable reply) it
\* returns the fallback result: understanding_score 0, the four sub-scores 0,
\* flags ['evaluation_failed'], confidence_level 'low'.
C20_EvaluatorFallback ==
    pc = "done" =>
        /\ evaluation # Raised
        /\ DOMAIN evaluation = EvaluationFields
        /\ EvaluatorFailed =>
               /\ evaluation.understanding_score = JsNumber(0)
               /\ \A k \in SubScores : evaluation.breakdown[k] = JsNumber(0)
               /\ evaluation.flags = <<"evaluation_failed">>
               /\ evaluation.confidence_level = "low"

\* the LLM answered 200 with text that is not JSON and the fallback came back
C20_Witness ==
    /\ pc = "done"
    /\ llm.key /\ llm.status = 200
    /\ llm.text = <<Junk>>
    /\ evaluation.flags = <<"evaluation_failed">>
    /\ evaluation.notes = <<SYSTEM_ERROR>>

\* C21: on a parsed reply of the evaluator's LLM the confidence_level of the
\* result is the reported one when that is low, medium or high, and 'medium'
\* otherwise; and the notes are the one-element placeholder array when the
\* reported notes are absent or empty, so the notes of the result are never an
\* empty array.
C21_ConfidenceAndNotesDefaults ==
    pc = "evaluation" =>
        LET cl == Get(llm.parsed, "confidence_level")
            nt == Get(llm.parsed, "notes")
        IN  /\ evaluation.confidence_level =
                   IF cl \in {JsString(l) : l \in CONFIDENCE_LEVELS} THEN cl.s
                   ELSE "medium"
            /\ (nt.t = "undefined" \/ nt = JsArray(<<>>)) =>
                   evaluation.notes = DEFAULT_NOTES
            /\ Len(evaluation.notes) > 0

\* the evaluate-answer request called the LLM and the call failed: no answer
\* or a non-2xx answer
AnswerLlmCallFailed ==
    /\ answerReq.pc = "done"
    /\ answerReq.llm # Unset
    /\ answerReq.llm.key
    /\ answerReq.llm.status # 200

\* the scores of the fallback evaluation
FallbackScores(r) ==
    /\ r.understanding_score = JsNumber(0)
    /\ \A k \in SubScores : r.breakdown[k] = JsNumber(0)

\* C22: when the call to the LLM API fails while an evaluate-answer request is
\* served, the endpoint answers HTTP 500 and the body carries the fallback
\* scores.
C22_LlmFailureIs500 ==
    AnswerLlmCallFailed =>
        /\ answerReq.response.status = 500
        /\ FallbackScores(answerReq.response)

\* C23: every 200 response of evaluate-answer carries an
\* ai_generated_probability field beside understanding_score.
C23_ResponseHasAiProbability ==
    (answerReq.pc = "done" /\ answerReq.response.status = 200) =>
        {"understanding_score", "ai_generated_probability"}
            \subseteq DOMAIN answerReq.response

\* the body of the analyze-repo request is JSON without a string repo_url
RepoUrlMissing ==
    \/ body.t = "null"
    \/ body.t = "object" /\ NotAString(body.repo_url)

\* its repo_url is a string that does not match the GitHub pattern
RepoUrlNoMatch ==
    /\ body.t = "object"
    /\ ~NotAString(body.repo_url)
    /\ parseGitHubUrl(body.repo_url.s).threw

\* the body of the evaluate-answer request is JSON without a string readme,
\* question or answer
AnswerFieldMissing ==
    /\ answerReq.pc # "idle"
    /\ \/ answerReq.body.t = "null"
       \/ /\ answerReq.body.t = "object"
          /\ \/ NotAString(answerReq.body.readme)
             \/ NotAString(answerReq.body.question)
             \/ NotAString(answerReq.body.answer)

\* C26: a request whose required body field is missing or not a string
\* (repo_url of analyze-repo; readme, question or answer of evaluate-answer),
\* or whose repo_url does not match the GitHub pattern, is answered 400, and
\* no call to GitHub or to the LLM is made for it.
C26_InvalidBodyIs400 ==
    /\ (RepoUrlMissing \/ RepoUrlNoMatch) =>
           /\ NoGitHubCall /\ ~LlmCalled
           /\ pc = "done" => response.status = 400
    /\ AnswerFieldMissing =>
           /\ answerReq.llm = Unset /\ evaluation = Unset
           /\ answerReq.pc = "done" => answerReq.response.status = 400

\* the state of the analyze-repo request and of the evaluate-answer request
analyzeVars ==
    <<pc, body, repoInfo, readme, files, packageJson, repoContext, fReadme,
      fTree, fPkg, treeLog, all, ctx, scorecard, llm, analysis, response>>
answerVars == <<answerReq, evaluation>>

\* the response of the evaluate-answer handler to body b when the LLM service
\* does `service` for it
AnswerAlone(b, service) ==
    IF AnswerRejection(b) # Unset THEN AnswerRejection(b)
    ELSE AnswerResponse(evaluateAnswer(service))

AnswerAsAlone ==
    answerReq.pc = "done" =>
        answerReq.response = AnswerAlone(answerReq.body, answerReq.llm)

C25_MissingReadmeIsNoError ==
    /\ fetchReadme(Failure(404)) = Fulfilled(<<>>)
    /\ LET forbidden == fetchReadme(Failure(403))
       IN  forbidden.st = "rejected" /\ Includes(forbidden.message, RATE_LIMIT)
    /\ \A status \in {400, 401, 429, 500, 503} :
           LET failed == fetchReadme(Failure(status))
           IN  /\ failed.st = "rejected"
               /\ StartsWith(failed.message, API_ERROR_PREFIX)
               /\ ~Includes(failed.message, RATE_LIMIT)
    /\ (Settled /\ fReadme = Fulfilled(<<>>) /\ fTree.st = "fulfilled") =>
           /\ Scored /\ LlmCalled
           /\ response.status = 200
           /\ response.scorecard.breakdown.documentation = 0

\* a fetch that has settled stays as it is: its request is not sent again
SettledStays(p, q) == p.st \in {"fulfilled", "rejected"} => q = p

\* the requests sent for one analyze-repo request so far
CallsWithinLimits ==
    /\ Len(treeLog) <= 2
    /\ ctx.st # "idle" => Len(ctx.log) <= MAX_PRIORITY_FILES

\* C27: provided every call to GitHub and to the LLM is answered in the end,
\* an analyze-repo request is answered, and answered once.  No failed call is
\* made again, so a request sends at most 2 tree requests, 1 README request,
\* 1 manifest request, 30 content requests and 1 call to the LLM.
C27_OneResponseFiniteCalls ==
    /\ <>(pc = "done" /\ response # NoResponse)
    /\ [][response # NoResponse => response' = response]_vars
    /\ []CallsWithinLimits
    /\ [][/\ SettledStays(fReadme, fReadme')
          /\ SettledStays(fPkg, fPkg')
          /\ SettledStays(fTree, fTree')
          /\ Len(treeLog) <= Len(treeLog')
          /\ llm # Unset => llm' = llm]_vars

\* a request answered 200 after two tree requests, content requests and a
\* failed call to the LLM
C27_Witness ==
    /\ pc = "done" /\ response.status = 200
    /\ Len(treeLog) = 2
    /\ ctx.st = "done" /\ Len(ctx.log) > 0
    /\ llm # Unset /\ llm.key /\ llm.status = 500

\* the status the handler answers with when the fetch p is the first to fail
StatusWhenFirst(p) == FetchErrorResponse(p.message).status

\* C28: for fixed replies of GitHub the status of the response does not depend
\* on the order in which the README, tree and manifest fetches complete.  When
\* the README fetch and the tree fetch both fail, with errors of different
\* classes, the status is the same whichever fails first: the status of the
\* run in which the README fetch fails first and also the status of the run in
\* which the tree fetch fails first.
C28_StatusOrderIndependent ==
    (/\ Settled
     /\ fReadme.st = "rejected" /\ fTree.st = "rejected"
     /\ StatusWhenFirst(fReadme) # StatusWhenFirst(fTree)) =>
        /\ response.status = StatusWhenFirst(fReadme)
        /\ response.status = StatusWhenFirst(fTree)

\* the place of a path in a file list that holds it once
IndexIn(fs, file) == CHOOSE i \in 1..Len(fs) : fs[i] = file

\* C29: the context fetchRepoContext returns lists the files whose content was
\* fetched in the order they have in the input file list, after the filtering
\* by pattern and the cap of 30, whatever the order in which the replies of a
\* batch arrive, and holds each of them at most once.
C29_ContextInInputOrder ==
    ctx.st = "done" =>
        /\ \A i \in 1..Len(ContextFiles) :
               \E k \in 1..Len(ctx.priority) :
                   /\ ctx.priority[k] = ContextFiles[i]
                   /\ k <= MAX_PRIORITY_FILES
                   /\ isPriority(ContextFiles[i])
                   /\ Usable(ctx.log[k])
        /\ \A i, j \in 1..Len(ContextFiles) :
               i < j => IndexIn(files, ContextFiles[i]) < IndexIn(files, ContextFiles[j])

\* a context of several batches that lacks the second and the fourth file
C29_Witness ==
    /\ ctx.st = "done"
    /\ Len(ctx.priority) > BATCH_SIZE
    /\ Omitted = {2, 4}
    /\ Len(repoContext) = Len(ctx.priority) - 2
    /\ ContextFiles[2] = ctx.priority[3]

\* the reply of the LLM, fences taken off, is not one JSON text
LlmUnparseable ==
    /\ llm.key /\ llm.status = 200 /\ llm.text # <<>>
    /\ LET cleaned == Trim(StripFenceEnd(StripFenceJson(llm.text)))
       IN  ~(Len(cleaned) = 1 /\ cleaned[1].k = "json")

\* C30: every way the LLM analysis can fail (no API key, a non-2xx answer, an
\* empty reply, an unparseable reply) yields the fixed object of
\* createFallbackAnalysis, so a failed analysis is never reported with an
\* ai_score other than 0.
C30_FailureIsFixedFallback ==
    (/\ LlmCalled
     /\ \/ ~llm.key
        \/ llm.status # 200
        \/ llm.text = <<>>
        \/ LlmUnparseable) =>
        /\ analysis = createFallbackAnalysis
        /\ response.status = 200 =>
               response.scorecard.ai_score = createFallbackAnalysis.scorecard.score

====
